---- MODULE Spec2Model ----
(***************************************************************************)
(* Super tic-tac-toe game engine (src/src/gameLogic.js): an N x N meta     *)
(* grid of N x N local boards.  The game state is one immutable record,    *)
(* replaced wholesale by makeMove.  Arrays are modelled as functions over  *)
(* 0..len-1 so that every index is the index the code uses.                *)
(***************************************************************************)
EXTENDS Integers, Sequences, FiniteSets, TLC

\* JavaScript null (an empty cell, no winner, no forced board).
Null == "null"

\* An optional array index (nextBoardIndex): null is the empty sequence and
\* the index i is <<i>>, so that null differs from every integer.
NoIndex == << >>

IndexOf(i) == << i >>

\* The two markers, in the order getLineWinner tries them.
Players == <<"X", "O">>

Markers == {"X", "O"}

DEFAULT_SIZE == 3

\* Indexes of an array of size*size entries.
Indexes(size) == 0 .. (size * size - 1)

----------------------------------------------------------------------------
(* JavaScript values handed to normalizeSize and read from a saved record: *)
(* a number, a string (a sequence of one-character strings), null,         *)
(* undefined, a boolean, an array or an object.                            *)
JsNumber(n) == [ type |-> "number", value |-> n, chars |-> << >> ]

JsString(chars) == [ type |-> "string", value |-> 0, chars |-> chars ]

JsNull == [ type |-> "null", value |-> 0, chars |-> << >> ]

JsUndefined == [ type |-> "undefined" ]

JsBoolean(b) == [ type |-> "boolean", bool |-> b ]

\* The number whole.fraction, whole >= 0 and fraction a non-empty run of
\* digits that are not all zero: a number that is not an integer.  The
\* number 5e-7 is JsDecimal(0, << "0", "0", "0", "0", "0", "0", "5" >>).
JsDecimal(whole, fraction) ==
    [ type |-> "number", value |-> whole, chars |-> fraction ]

\* An array: items[i + 1] is the element at index i.
JsArray(items) == [ type |-> "array", items |-> items ]

\* An object: fields is a function from its property names to their values.
JsObject(fields) == [ type |-> "object", fields |-> fields ]

\* The decimal digits, the digit d at position d + 1.
DigitChars == << "0", "1", "2", "3", "4", "5", "6", "7", "8", "9" >>

IsDigit(ch) == \E d \in 0 .. 9 : DigitChars[d + 1] = ch

DigitValue(ch) == CHOOSE d \in 0 .. 9 : DigitChars[d + 1] = ch

\* A character of a string is one element of its sequence.  A character of
\* the ASCII range is written as itself, a string of length one; a character
\* outside it is written as the name of its code point, "U+00E9" for the
\* letter e with an acute accent, a module being ASCII text.
\* WhiteSpace and LineTerminator of the language, which parseInt and trim
\* skip: tab, line feed, vertical tab (U+000B), form feed, carriage return,
\* space, no-break space, the other space separators, the line and
\* paragraph separators and the byte order mark.  No other character is
\* skipped: not U+0085, U+180E or U+200B, and no letter.
WhiteSpaceChars ==
    { "\t", "\n", "", "\f", "\r", " ", "U+00A0", "U+1680",
      "U+2000", "U+2001", "U+2002", "U+2003", "U+2004", "U+2005", "U+2006",
      "U+2007", "U+2008", "U+2009", "U+200A", "U+2028", "U+2029", "U+202F",
      "U+205F", "U+3000", "U+FEFF" }

IsWhiteSpace(ch) == ch \in WhiteSpaceChars

RECURSIVE NaturalToString(_)
(* The decimal digits of a natural number, most significant first. *)
NaturalToString(n) ==
    IF n < 10 THEN << DigitChars[n + 1] >>
    ELSE NaturalToString(n \div 10) \o << DigitChars[(n % 10) + 1] >>

RECURSIVE LeadingZeros(_)
\* Number of zeros a run of digits starts with.
LeadingZeros(digits) ==
    IF digits # << >> /\ Head(digits) = "0"
    THEN 1 + LeadingZeros(Tail(digits))
    ELSE 0

RECURSIVE Significant(_)
\* A run of digits without the zeros it ends with.
Significant(digits) ==
    IF digits # << >> /\ digits[Len(digits)] = "0"
    THEN Significant(SubSeq(digits, 1, Len(digits) - 1))
    ELSE digits

\* The digits of an integer, after "-" when it is negative.
IntegerToString(value) ==
    IF value < 0 THEN << "-" >> \o NaturalToString(0 - value)
    ELSE NaturalToString(value)

\* Exponent form: the first significant digit, then "." and the other
\* significant digits if there are any, then "e-" and the exponent.
ExponentToString(mantissa, exponent) ==
    << Head(mantissa) >>
    \o (IF Len(mantissa) > 1 THEN << "." >> \o Tail(mantissa) ELSE << >>)
    \o << "e", "-" >> \o NaturalToString(exponent)

\* Number::toString of value.digits, digits not ending with a zero.
DecimalToString(value, digits) ==
    IF digits = << >> THEN IntegerToString(value)
    ELSE IF value = 0 /\ LeadingZeros(digits) >= 6
    THEN ExponentToString(
            SubSeq(digits, LeadingZeros(digits) + 1, Len(digits)),
            LeadingZeros(digits) + 1)
    ELSE IntegerToString(value) \o << "." >> \o digits

(* Number::toString of a number below 10^21: the digits of an integer; a   *)
(* number that is not an integer as whole "." fraction when it is at       *)
(* least 10^-6, and otherwise in exponent form.                            *)
NumberToString(value, fraction) ==
    DecimalToString(value, Significant(fraction))

\* A TypeError thrown by a conversion, in place of the value returned.
TypeError == [ thrown |-> TRUE, name |-> "TypeError" ]

RECURSIVE ToStringThrows(_)
(* Whether ToString of a value throws.  The conversion of an object calls  *)
(* its toString and then its valueOf, those of Object.prototype unless the *)
(* object has fields of these names.  The values here are the ones         *)
(* JSON.parse returns, in which no field is a function: an object with a   *)
(* field toString has no method that returns a primitive value (valueOf    *)
(* is its own field, or the one of Object.prototype, which returns the     *)
(* object), and its conversion throws a TypeError.  So does that of an     *)
(* array with such an item, the items null and undefined being skipped by  *)
(* join.                                                                   *)
ToStringThrows(v) ==
    IF v.type = "object" THEN "toString" \in DOMAIN v.fields
    ELSE IF v.type = "array"
    THEN \E j \in 1 .. Len(v.items) :
            /\ v.items[j].type \notin {"null", "undefined"}
            /\ ToStringThrows(v.items[j])
    ELSE FALSE

RECURSIVE JsToString(_)
RECURSIVE JoinFrom(_, _)
(* Array.prototype.join(","), from item i on: null and undefined items     *)
(* give the empty string.                                                  *)
JoinFrom(items, i) ==
    IF \E j \in i .. Len(items) :
          /\ items[j].type \notin {"null", "undefined"}
          /\ ToStringThrows(items[j])
    THEN TypeError
    ELSE IF i > Len(items) THEN << >>
    ELSE (IF items[i].type \in {"null", "undefined"} THEN << >>
          ELSE JsToString(items[i]))
         \o (IF i < Len(items) THEN << "," >> ELSE << >>)
         \o JoinFrom(items, i + 1)

(* ToString of the language, applied by parseInt to its argument: the      *)
(* string, or the TypeError thrown.                                        *)
JsToString(v) ==
    IF ToStringThrows(v) THEN TypeError
    ELSE IF v.type = "string" THEN v.chars
    ELSE IF v.type = "null" THEN << "n", "u", "l", "l" >>
    ELSE IF v.type = "undefined"
         THEN << "u", "n", "d", "e", "f", "i", "n", "e", "d" >>
    ELSE IF v.type = "boolean"
         THEN (IF v.bool THEN << "t", "r", "u", "e" >>
               ELSE << "f", "a", "l", "s", "e" >>)
    ELSE IF v.type = "array" THEN JoinFrom(v.items, 1)
    ELSE IF v.type = "object"
         THEN << "[", "o", "b", "j", "e", "c", "t", " ",
                 "O", "b", "j", "e", "c", "t", "]" >>
    ELSE NumberToString(v.value, v.chars)

\* A parsed number: NaN is not finite and carries no value.
NaN == [ finite |-> FALSE, value |-> 0 ]

Finite(n) == [ finite |-> TRUE, value |-> n ]

RECURSIVE TrimStart(_)
(* parseInt skips leading white space. *)
TrimStart(chars) ==
    IF chars # << >> /\ IsWhiteSpace(Head(chars)) THEN TrimStart(Tail(chars))
    ELSE chars

RECURSIVE DigitPrefix(_)
(* The longest prefix of decimal digits. *)
DigitPrefix(chars) ==
    IF chars # << >> /\ IsDigit(Head(chars))
    THEN << Head(chars) >> \o DigitPrefix(Tail(chars))
    ELSE << >>

RECURSIVE DecimalValue(_, _)
(* The value of a run of decimal digits, accumulated left to right. *)
DecimalValue(digits, acc) ==
    IF digits = << >> THEN acc
    ELSE DecimalValue(Tail(digits), 10 * acc + DigitValue(Head(digits)))

\* The number a sign and a run of digits write: NaN when there is no digit.
ParseDigits(negative, digits) ==
    IF digits = << >> THEN NaN
    ELSE Finite(IF negative THEN 0 - DecimalValue(digits, 0)
                ELSE DecimalValue(digits, 0))

\* parseInt of a string without leading white space: an optional sign, then
\* the longest run of digits.
ParseSigned(trimmed) ==
    ParseDigits(trimmed # << >> /\ Head(trimmed) = "-",
                DigitPrefix(IF trimmed # << >> /\ Head(trimmed) \in {"-", "+"}
                            THEN Tail(trimmed) ELSE trimmed))

(* Number.parseInt(rawValue, 10): white space, an optional sign, then the   *)
(* longest run of digits; NaN when there is no digit.  The TypeError of   *)
(* ToString is thrown on.                                                  *)
parseInt(rawValue) ==
    IF ToStringThrows(rawValue) THEN TypeError
    ELSE ParseSigned(TrimStart(JsToString(rawValue)))

\* normalizeSize once the value is parsed (lines 5-8).
SizeOrDefault(parsed) ==
    IF ~parsed.finite \/ parsed.value < 2 THEN DEFAULT_SIZE ELSE parsed.value

(* normalizeSize: a size, or the TypeError parseInt throws. *)
normalizeSize(rawValue) ==
    IF ToStringThrows(rawValue) THEN TypeError
    ELSE SizeOrDefault(parseInt(rawValue))

\* Mutant of InitialGameState: each board gets size cells, not size * size.
InitialGameState_RowOfCells(size) ==
    [ size           |-> size,
      currentPlayer  |-> "X",
      nextBoardIndex |-> NoIndex,
      winner         |-> Null,
      isDraw         |-> FALSE,
      moveCount      |-> 0,
      boards         |-> [ b \in Indexes(size) |->
                             [ cells  |-> [ c \in 0 .. size - 1 |-> Null ],
                               winner |-> Null,
                               isDraw |-> FALSE ] ] ]

\* createInitialGameState once size is computed (lines 18-32).
InitialGameState(size) ==
    [ size           |-> size,
      currentPlayer  |-> "X",
      nextBoardIndex |-> NoIndex,
      winner         |-> Null,
      isDraw         |-> FALSE,
      moveCount      |-> 0,
      boards         |-> [ b \in Indexes(size) |->
                             [ cells  |-> [ c \in Indexes(size) |-> Null ],
                               winner |-> Null,
                               isDraw |-> FALSE ] ] ]

(* createInitialGameState: a new game, or the TypeError normalizeSize      *)
(* throws.                                                                 *)
createInitialGameState(requestedSize) ==
    IF ToStringThrows(requestedSize) THEN TypeError
    ELSE InitialGameState(normalizeSize(requestedSize))

\* Mutant of LineOf: the anti-diagonal loop is left out.
LineOf_NoAntiDiagonal(cells, size, player) ==
    \/ \E row \in 0 .. size - 1 :
          \A col \in 0 .. size - 1 : cells[row * size + col] = player
    \/ \E col \in 0 .. size - 1 :
          \A row \in 0 .. size - 1 : cells[row * size + col] = player
    \/ \A i \in 0 .. size - 1 : cells[i * size + i] = player

(* One player's pass of the loop body of getLineWinner: some full row,     *)
(* some full column, the main diagonal or the anti-diagonal.               *)
LineOf(cells, size, player) ==
    \/ \E row \in 0 .. size - 1 :
          \A col \in 0 .. size - 1 : cells[row * size + col] = player
    \/ \E col \in 0 .. size - 1 :
          \A row \in 0 .. size - 1 : cells[row * size + col] = player
    \/ \A i \in 0 .. size - 1 : cells[i * size + i] = player
    \/ \A i \in 0 .. size - 1 : cells[i * size + (size - 1 - i)] = player

\* Mutant of getLineWinner: the loop over the players stops after X.
getLineWinner_FirstPlayerOnly(cells, size) ==
    IF LineOf(cells, size, "X") THEN "X" ELSE Null

(* getLineWinner: X is tried first, then O, then null. *)
getLineWinner(cells, size) ==
    IF LineOf(cells, size, Players[1]) THEN Players[1]
    ELSE IF LineOf(cells, size, Players[2]) THEN Players[2]
    ELSE Null

\* Mutant of isBoardResolved: a drawn board does not count as resolved.
isBoardResolved_WonOnly(board) == board.winner # Null

(* isBoardResolved: Boolean(board.winner) || board.isDraw *)
isBoardResolved(board) == board.winner # Null \/ board.isDraw

\* An index passed to the engine is an integer or the name of a property.
\* The names tried: length, which every array has; slice, a method every
\* array inherits; cells, which no array has.
PropertyNames == { "length", "slice", "cells" }

\* The names under which an array has a value: array.length is the number of
\* its entries (never 0 for the boards or the cells of a state) and
\* array.slice is a function.
ArrayProperties == { "length", "slice" }

\* The text of each name, as ToString writes a string.
PropertyNameTexts == { ToString(name) : name \in PropertyNames }

\* The index is a name and not an integer.  (An integer and a string are
\* not compared; the text of the value tells them apart.)
IsPropertyName(index) == ToString(index) \in PropertyNameTexts

(* !board is false: state.boards[boardIndex] is a board, the length of the *)
(* array or a method of it; it is undefined outside the array and for any  *)
(* other name.                                                             *)
HasBoard(state, boardIndex) ==
    IF IsPropertyName(boardIndex) THEN boardIndex \in ArrayProperties
    ELSE boardIndex \in DOMAIN state.boards

\* Mutant of getForcedBoardIndexIfPlayable: a resolved forced board still
\* forces.
getForcedBoardIndexIfPlayable_NoResolvedCheck(state) ==
    IF state.nextBoardIndex = NoIndex THEN NoIndex
    ELSE IF ~HasBoard(state, state.nextBoardIndex[1]) THEN NoIndex
    ELSE state.nextBoardIndex

(* getForcedBoardIndexIfPlayable *)
getForcedBoardIndexIfPlayable(state) ==
    IF state.nextBoardIndex = NoIndex THEN NoIndex
    ELSE IF \/ ~HasBoard(state, state.nextBoardIndex[1])
            \/ isBoardResolved(state.boards[state.nextBoardIndex[1]])
         THEN NoIndex
         ELSE state.nextBoardIndex

\* Mutant of canPlayInBoard: the test that the board is unresolved is left
\* out.
canPlayInBoard_NoResolvedCheck(state, boardIndex) ==
    IF state.winner # Null \/ state.isDraw THEN FALSE
    ELSE IF ~HasBoard(state, boardIndex) THEN FALSE
    ELSE IF getForcedBoardIndexIfPlayable(state) = NoIndex THEN TRUE
    ELSE getForcedBoardIndexIfPlayable(state) = IndexOf(boardIndex)

\* Mutant of canPlayInBoard: the game-over test is left out.
canPlayInBoard_NoOverCheck(state, boardIndex) ==
    IF ~HasBoard(state, boardIndex) THEN FALSE
    ELSE IF isBoardResolved(state.boards[boardIndex]) THEN FALSE
    ELSE IF getForcedBoardIndexIfPlayable(state) = NoIndex THEN TRUE
    ELSE getForcedBoardIndexIfPlayable(state) = IndexOf(boardIndex)

(* canPlayInBoard.  Of the length or a method of the array, winner and    *)
(* isDraw are undefined, so that isBoardResolved is not true of it, and no *)
(* forced index is === a name.                                             *)
canPlayInBoard(state, boardIndex) ==
    IF state.winner # Null \/ state.isDraw THEN FALSE
    ELSE IF ~HasBoard(state, boardIndex) THEN FALSE
    ELSE IF IsPropertyName(boardIndex)
         THEN getForcedBoardIndexIfPlayable(state) = NoIndex
    ELSE IF isBoardResolved(state.boards[boardIndex]) THEN FALSE
    ELSE IF getForcedBoardIndexIfPlayable(state) = NoIndex THEN TRUE
    ELSE getForcedBoardIndexIfPlayable(state) = IndexOf(boardIndex)

RECURSIVE AllowedFrom(_, _, _)
(* The loop of getAllowedBoardIndexes from index i on: allowed is the      *)
(* array pushed to so far.                                                 *)
AllowedFrom(state, i, allowed) ==
    IF i < Cardinality(DOMAIN state.boards)
    THEN AllowedFrom(state, i + 1,
                     IF canPlayInBoard(state, i) THEN Append(allowed, i)
                     ELSE allowed)
    ELSE allowed

\* Mutant of getAllowedBoardIndexes: the loop starts at index 1.
getAllowedBoardIndexes_FromOne(state) == AllowedFrom(state, 1, << >>)

(* getAllowedBoardIndexes: the array returned, in the order pushed. *)
getAllowedBoardIndexes(state) == AllowedFrom(state, 0, << >>)

\* Mutant of togglePlayer: O follows every player.
togglePlayer_AlwaysO(player) == "O"

(* togglePlayer *)
togglePlayer(player) == IF player = "X" THEN "O" ELSE "X"

\* Mutant of CellNotNull: the undefined read outside the array counts as
\* null (a loose != null).
CellNotNull_Loose(board, cellIndex) ==
    IF cellIndex \in DOMAIN board.cells
    THEN board.cells[cellIndex] # Null
    ELSE FALSE

(* board.cells[cellIndex] !== null: true for a marker, for the undefined   *)
(* read outside the array, and for what is read under a name (the length,  *)
(* a method or undefined).                                                 *)
CellNotNull(board, cellIndex) ==
    IF IsPropertyName(cellIndex) THEN TRUE
    ELSE IF cellIndex \in DOMAIN board.cells
    THEN board.cells[cellIndex] # Null
    ELSE TRUE

(* The arrays written to in a call: an array of the state passed in (the   *)
(* boards, or the cells of one board), or the copy slice() returns of it.  *)
ArrayOf(name, boardIndex) ==
    [ array |-> name, board |-> boardIndex, copy |-> FALSE ]

\* array.slice()
slice(array) == [ array EXCEPT !.copy = TRUE ]

\* Mutant of UpdatedCellsArray: the cells of the board are written to, not a
\* copy of them.
UpdatedCellsArray_NoSlice(boardIndex) == ArrayOf("cells", boardIndex)

(* The array updatedCells: board.cells.slice() (line 145). *)
UpdatedCellsArray(boardIndex) == slice(ArrayOf("cells", boardIndex))

(* The array updatedBoards: state.boards.slice() (line 144). *)
UpdatedBoardsArray == slice(ArrayOf("boards", 0))

\* The boards of the state after updatedCells[cellIndex] = marker (line 146).
CellsAfterWrite(written, boards, boardIndex, cellIndex, marker) ==
    IF written.copy THEN boards
    ELSE [ boards EXCEPT ![boardIndex].cells[cellIndex] = marker ]

\* The boards of the state after updatedBoards[boardIndex] = board (line 150).
BoardsAfterWrite(written, boards, boardIndex, board) ==
    IF written.copy THEN boards
    ELSE [ boards EXCEPT ![boardIndex] = board ]

\* Mutant of UpdatedCells: the marker is placed in a fresh array, not in a
\* copy of the board's cells.
UpdatedCells_Fresh(state, boardIndex, cellIndex) ==
    [ i \in DOMAIN state.boards[boardIndex].cells |->
         IF i = cellIndex THEN state.currentPlayer ELSE Null ]

(* updatedCells: the cells of the target board with the marker placed. *)
UpdatedCells(state, boardIndex, cellIndex) ==
    [state.boards[boardIndex].cells EXCEPT ![cellIndex] = state.currentPlayer]

\* Mutant of LocalDraw: a full board without a line is left open.
LocalDraw_Never(localWinner, updatedCells) == FALSE

(* localDraw: no local winner and every cell occupied. *)
LocalDraw(localWinner, updatedCells) ==
    localWinner = Null /\ \A i \in DOMAIN updatedCells : updatedCells[i] # Null

\* Mutant of UpdatedBoards: the boards share one cells array, so the marker
\* shows in the played cell of every board.
UpdatedBoards_SharedCells(state, boardIndex, cellIndex) ==
    LET updatedCells == UpdatedCells(state, boardIndex, cellIndex)
        localWinner  == getLineWinner(updatedCells, state.size)
    IN [ i \in DOMAIN state.boards |->
           IF i = boardIndex
           THEN [ cells  |-> updatedCells,
                  winner |-> localWinner,
                  isDraw |-> LocalDraw(localWinner, updatedCells) ]
           ELSE [ state.boards[i] EXCEPT
                    !.cells = UpdatedCells(state, i, cellIndex) ] ]

(* updatedBoards: the boards with the target board replaced. *)
UpdatedBoards(state, boardIndex, cellIndex) ==
    LET updatedCells == UpdatedCells(state, boardIndex, cellIndex)
        localWinner  == getLineWinner(updatedCells, state.size)
    IN [state.boards EXCEPT ![boardIndex] =
           [ cells  |-> updatedCells,
             winner |-> localWinner,
             isDraw |-> LocalDraw(localWinner, updatedCells) ]]

(* metaCells: each local board's winner, null for an open or drawn board. *)
MetaCells(boards) == [ i \in DOMAIN boards |-> boards[i].winner ]

\* Mutant of MetaWinner: the meta grid is read from the boards before the move.
MetaWinner_Stale(state, updatedBoards) ==
    getLineWinner(MetaCells(state.boards), state.size)

\* Mutant of MetaWinner: the win goes to the player who did not move.
MetaWinner_Opponent(state, updatedBoards) ==
    IF getLineWinner(MetaCells(updatedBoards), state.size) = Null THEN Null
    ELSE togglePlayer(getLineWinner(MetaCells(updatedBoards), state.size))

(* winner: the line winner of the meta grid of the updated boards. *)
MetaWinner(state, updatedBoards) ==
    getLineWinner(MetaCells(updatedBoards), state.size)

\* Mutant of MetaDraw: the test for a meta winner is left out.
MetaDraw_NoWinnerCheck(winner, updatedBoards) ==
    \A i \in DOMAIN updatedBoards : isBoardResolved(updatedBoards[i])

\* Mutant of MetaDraw: only won boards count as resolved.
MetaDraw_WonOnly(winner, updatedBoards) ==
    winner = Null
    /\ \A i \in DOMAIN updatedBoards : updatedBoards[i].winner # Null

\* Mutant of MetaDraw: the game is never declared a draw.
MetaDraw_Never(winner, updatedBoards) == FALSE

(* isDraw: no meta winner and every local board resolved. *)
MetaDraw(winner, updatedBoards) ==
    winner = Null
    /\ \A i \in DOMAIN updatedBoards : isBoardResolved(updatedBoards[i])

\* Mutant of NextBoardIndex: the target board is read from the boards before
\* the move.
NextBoardIndex_Stale(state, updatedBoards, winner, isDraw, cellIndex) ==
    IF winner = Null /\ ~isDraw
       /\ cellIndex \in DOMAIN state.boards
       /\ ~isBoardResolved(state.boards[cellIndex])
    THEN IndexOf(cellIndex)
    ELSE NoIndex

\* Mutant of NextBoardIndex: the game-over test is left out.
NextBoardIndex_NoOverCheck(state, updatedBoards, winner, isDraw, cellIndex) ==
    IF cellIndex \in DOMAIN updatedBoards
       /\ ~isBoardResolved(updatedBoards[cellIndex])
    THEN IndexOf(cellIndex)
    ELSE NoIndex

(* nextBoardIndex: the board matching the cell played, when the game goes  *)
(* on and that board exists and is open in the updated boards.             *)
NextBoardIndex(state, updatedBoards, winner, isDraw, cellIndex) ==
    IF winner = Null /\ ~isDraw
       /\ cellIndex \in DOMAIN updatedBoards
       /\ ~isBoardResolved(updatedBoards[cellIndex])
    THEN IndexOf(cellIndex)
    ELSE NoIndex

\* Mutant of NextMoveCount: the count is carried over.
NextMoveCount_Stale(state) == state.moveCount

(* moveCount of the returned state. *)
NextMoveCount(state) == state.moveCount + 1

\* Mutant of NextPlayer: the player is toggled after every move.
NextPlayer_AlwaysToggle(state, winner, isDraw) ==
    togglePlayer(state.currentPlayer)

(* currentPlayer of the returned state. *)
NextPlayer(state, winner, isDraw) ==
    IF winner # Null \/ isDraw
    THEN state.currentPlayer
    ELSE togglePlayer(state.currentPlayer)

(* The accepted branch of makeMove: the state it returns. *)
ApplyMove(state, boardIndex, cellIndex) ==
    LET updatedBoards == UpdatedBoards(state, boardIndex, cellIndex)
        winner        == MetaWinner(state, updatedBoards)
        isDraw        == MetaDraw(winner, updatedBoards)
    IN [ state EXCEPT
           !.boards         = updatedBoards,
           !.moveCount      = NextMoveCount(state),
           !.winner         = winner,
           !.isDraw         = isDraw,
           !.nextBoardIndex = NextBoardIndex(state, updatedBoards, winner,
                                             isDraw, cellIndex),
           !.currentPlayer  = NextPlayer(state, winner, isDraw) ]

\* Mutant of makeMove: the occupied-cell test is left out.
makeMove_NoCellCheck(state, boardIndex, cellIndex) ==
    IF ~canPlayInBoard(state, boardIndex) THEN state
    ELSE IF cellIndex \notin DOMAIN state.boards[boardIndex].cells THEN state
    ELSE ApplyMove(state, boardIndex, cellIndex)

\* Mutant of makeMove: the board is only tested for existence.
makeMove_NoBoardCheck(state, boardIndex, cellIndex) ==
    IF ~HasBoard(state, boardIndex) THEN state
    ELSE IF CellNotNull(state.boards[boardIndex], cellIndex) THEN state
    ELSE ApplyMove(state, boardIndex, cellIndex)

(* The state passed to an accepted makeMove as it is when the call         *)
(* returns: a write into an array of the state shows in it, a write into a *)
(* copy does not.                                                          *)
ArgumentAfter(state, boardIndex, cellIndex) ==
    [ state EXCEPT !.boards =
        BoardsAfterWrite(
           UpdatedBoardsArray,
           CellsAfterWrite(UpdatedCellsArray(boardIndex), state.boards,
                           boardIndex, cellIndex, state.currentPlayer),
           boardIndex,
           UpdatedBoards(state, boardIndex, cellIndex)[boardIndex]) ]

(* makeMove: the board check, then the cell check, then the move.  For a   *)
(* boardIndex that names the length or a method of the array, board.cells  *)
(* is undefined and board.cells[cellIndex] (line 140) throws a TypeError.  *)
makeMove(state, boardIndex, cellIndex) ==
    IF ~canPlayInBoard(state, boardIndex) THEN state
    ELSE IF IsPropertyName(boardIndex) THEN TypeError
    ELSE IF CellNotNull(state.boards[boardIndex], cellIndex) THEN state
    ELSE ApplyMove(state, boardIndex, cellIndex)

----------------------------------------------------------------------------
(* Persistence (src/src/gameStore.js): a game state is saved as JSON text  *)
(* and read back through hydrateGameState, which accepts any parsed value. *)

\* rawValue?.name: the property of an object, undefined for anything else.
Get(rawValue, name) ==
    IF rawValue.type = "object" /\ name \in DOMAIN rawValue.fields
    THEN rawValue.fields[name]
    ELSE JsUndefined

\* left ?? right
Coalesce(left, right) ==
    IF left.type \in {"null", "undefined"} THEN right ELSE left

\* Array.isArray
IsArray(rawValue) == rawValue.type = "array"

\* array[index]: undefined outside the array.
ItemAt(array, index) ==
    IF index + 1 \in DOMAIN array.items THEN array.items[index + 1]
    ELSE JsUndefined

\* Number.isInteger
IsInteger(rawValue) == rawValue.type = "number" /\ rawValue.chars = << >>

\* Boolean(rawValue)
ToBoolean(rawValue) ==
    IF rawValue.type = "boolean" THEN rawValue.bool
    ELSE IF rawValue.type = "number"
         THEN rawValue.value # 0 \/ rawValue.chars # << >>
    ELSE IF rawValue.type = "string" THEN rawValue.chars # << >>
    ELSE rawValue.type \in {"array", "object"}

(* normalizeMarker: value === "X" || value === "O" ? value : null *)
normalizeMarker(value) ==
    IF value.type = "string" /\ value.chars = << "X" >> THEN "X"
    ELSE IF value.type = "string" /\ value.chars = << "O" >> THEN "O"
    ELSE Null

RECURSIVE CountCellsFrom(_, _, _)
(* The inner reduce of countMoves from cell i on: count + (value ? 1 : 0) *)
CountCellsFrom(cells, i, count) ==
    IF i \notin DOMAIN cells THEN count
    ELSE CountCellsFrom(cells, i + 1,
                        count + (IF cells[i] # Null THEN 1 ELSE 0))

RECURSIVE CountBoardsFrom(_, _, _)
(* The outer reduce of countMoves from board i on. *)
CountBoardsFrom(boards, i, total) ==
    IF i \notin DOMAIN boards THEN total
    ELSE CountBoardsFrom(boards, i + 1,
                         total + CountCellsFrom(boards[i].cells, 0, 0))

(* countMoves *)
countMoves(boards) == CountBoardsFrom(boards, 0, 0)

(* One board of hydrateGameState: the base board with the cells, winner    *)
(* and isDraw read from the saved board.                                   *)
HydrateBoard(rawBoard, baseBoard, boardCellCount) ==
    LET winner == normalizeMarker(Get(rawBoard, "winner"))
    IN [ baseBoard EXCEPT
           !.cells  = [ cellIndex \in 0 .. boardCellCount - 1 |->
                          normalizeMarker(
                             IF IsArray(Get(rawBoard, "cells"))
                             THEN ItemAt(Get(rawBoard, "cells"), cellIndex)
                             ELSE JsNull) ],
           !.winner = winner,
           !.isDraw = winner = Null /\ ToBoolean(Get(rawBoard, "isDraw")) ]

\* Mutant of HydrateMoveCount: a missing count becomes 0.
HydrateMoveCount_Zero(rawState, boards) ==
    IF IsInteger(Get(rawState, "moveCount"))
       /\ Get(rawState, "moveCount").value >= 0
    THEN Get(rawState, "moveCount").value
    ELSE 0

(* moveCount of hydrateGameState: the saved count when it is a             *)
(* non-negative integer, a recount of the hydrated boards otherwise.       *)
HydrateMoveCount(rawState, boards) ==
    IF IsInteger(Get(rawState, "moveCount"))
       /\ Get(rawState, "moveCount").value >= 0
    THEN Get(rawState, "moveCount").value
    ELSE countMoves(boards)

\* Mutant of HydrateNextBoardIndex: the saved index is always dropped.
HydrateNextBoardIndex_Dropped(rawState, boardCellCount) == NoIndex

(* nextBoardIndex of hydrateGameState: the saved index when it is an       *)
(* integer inside the grid, null otherwise.                                *)
HydrateNextBoardIndex(rawState, boardCellCount) ==
    LET nextBoardIndex == IF IsInteger(Get(rawState, "nextBoardIndex"))
                          THEN IndexOf(Get(rawState, "nextBoardIndex").value)
                          ELSE NoIndex
    IN IF /\ nextBoardIndex # NoIndex
          /\ nextBoardIndex[1] >= 0
          /\ nextBoardIndex[1] < boardCellCount
       THEN nextBoardIndex
       ELSE NoIndex

\* The state hydrateGameState returns (lines 54-68), from the base state
\* and the hydrated boards.
HydrateState(rawState, base, boards, boardCellCount) ==
    [ base EXCEPT
        !.boards         = boards,
        !.moveCount      = HydrateMoveCount(rawState, boards),
        !.currentPlayer  =
           IF /\ Get(rawState, "currentPlayer").type = "string"
              /\ Get(rawState, "currentPlayer").chars = << "O" >>
           THEN "O" ELSE "X",
        !.nextBoardIndex = HydrateNextBoardIndex(rawState, boardCellCount),
        !.winner         = normalizeMarker(Get(rawState, "winner")),
        !.isDraw         = /\ normalizeMarker(Get(rawState, "winner")) = Null
                           /\ ToBoolean(Get(rawState, "isDraw")) ]

\* boards of hydrateGameState (lines 32-48).
HydrateBoards(rawState, base, boardCellCount) ==
    [ boardIndex \in 0 .. boardCellCount - 1 |->
        HydrateBoard(IF IsArray(Get(rawState, "boards"))
                     THEN ItemAt(Get(rawState, "boards"), boardIndex)
                     ELSE JsNull,
                     base.boards[boardIndex], boardCellCount) ]

\* hydrateGameState once base and boardCellCount are computed (lines 29-30).
HydrateOnto(rawState, base, boardCellCount) ==
    HydrateState(rawState, base,
                 HydrateBoards(rawState, base, boardCellCount), boardCellCount)

\* hydrateGameState once size is computed (line 28).
HydrateSized(rawState, size) ==
    HydrateOnto(rawState, createInitialGameState(JsNumber(size)), size * size)

(* hydrateGameState: the state read, or the TypeError normalizeSize throws *)
(* at line 28.                                                             *)
hydrateGameState(rawState) ==
    IF ToStringThrows(Coalesce(Get(rawState, "size"), JsNumber(DEFAULT_SIZE)))
    THEN TypeError
    ELSE HydrateSized(rawState,
                      normalizeSize(Coalesce(Get(rawState, "size"),
                                             JsNumber(DEFAULT_SIZE))))

\* A marker or null of a game state, as the value the program holds.
MarkerValue(marker) ==
    IF marker = Null THEN JsNull ELSE JsString(<< marker >>)

\* A game state of the engine, as the object the program holds.
GameStateValue(state) ==
    JsObject(
      [ size           |-> JsNumber(state.size),
        currentPlayer  |-> JsString(<< state.currentPlayer >>),
        nextBoardIndex |-> IF state.nextBoardIndex = NoIndex THEN JsNull
                           ELSE JsNumber(state.nextBoardIndex[1]),
        winner         |-> MarkerValue(state.winner),
        isDraw         |-> JsBoolean(state.isDraw),
        moveCount      |-> JsNumber(state.moveCount),
        boards         |->
           JsArray([ i \in 1 .. Cardinality(DOMAIN state.boards) |->
              JsObject(
                [ cells  |->
                     JsArray([ j \in 1 .. Cardinality(
                                            DOMAIN state.boards[i - 1].cells)
                                 |-> MarkerValue(state.boards[i - 1].cells[j - 1]) ]),
                  winner |-> MarkerValue(state.boards[i - 1].winner),
                  isDraw |-> JsBoolean(state.boards[i - 1].isDraw) ]) ]) ])

RECURSIVE JSONRoundTrip(_)
(* JSON.parse(JSON.stringify(value)): a property whose value is undefined  *)
(* is left out, an undefined array item becomes null, every other value    *)
(* of the kinds modelled here is read back as it was written.              *)
JSONRoundTrip(value) ==
    IF value.type = "object"
    THEN JsObject([ name \in { n \in DOMAIN value.fields :
                                 value.fields[n].type # "undefined" } |->
                      JSONRoundTrip(value.fields[name]) ])
    ELSE IF value.type = "array"
    THEN JsArray([ i \in 1 .. Len(value.items) |->
                     IF value.items[i].type = "undefined" THEN JsNull
                     ELSE JSONRoundTrip(value.items[i]) ])
    ELSE value

----------------------------------------------------------------------------
(* The store of saved games (src/src/gameStore.js).  An id or a name is a  *)
(* string, held as its sequence of characters; a time stamp is a number.   *)

STORAGE_VERSION == 1

RECURSIVE TrimEnd(_)
(* trim() at the end of a string. *)
TrimEnd(chars) ==
    IF chars # << >> /\ IsWhiteSpace(chars[Len(chars)])
    THEN TrimEnd(SubSeq(chars, 1, Len(chars) - 1))
    ELSE chars

\* String.prototype.trim
Trim(chars) == TrimEnd(TrimStart(chars))

\* What one call of createId draws (lines 13-16): where the environment has
\* crypto.randomUUID, the UUID it returns; where it has not, the value of
\* Math.floor(Math.random() * 1_000_000).
RandomUUID(uuid) == [ hasRandomUUID |-> TRUE, uuid |-> uuid, random |-> 0 ]

MathRandom(random) ==
    [ hasRandomUUID |-> FALSE, uuid |-> << >>, random |-> random ]

\* The clock: the values the calls of Date.now() still to come return, in
\* the order of the calls.  safeNow() reads its head.

(* createId: the UUID drawn, or "game-", the time, "-" and the number      *)
(* drawn.  The ids in use are not looked at.  The time is read from the    *)
(* clock at the call (line 16).                                            *)
createId(drawn, clock) ==
    IF drawn.hasRandomUUID THEN drawn.uuid
    ELSE << "g", "a", "m", "e", "-" >> \o NaturalToString(Head(clock))
         \o << "-" >> \o NaturalToString(drawn.random)

\* The clock after a call of createId, which reads it once where there is
\* no crypto.randomUUID.
ClockAfterCreateId(clock, drawn) ==
    IF drawn.hasRandomUUID THEN clock ELSE Tail(clock)

\* Mutant of createGameEntry: the new game is numbered but not reset, it
\* starts with X already placed in the first cell.
createGameEntry_Played(size, gameNumber, clock, drawn) ==
    [ id        |-> createId(drawn, Tail(clock)),
      name      |-> << "G", "a", "m", "e", " " >> \o NaturalToString(gameNumber),
      createdAt |-> JsNumber(Head(clock)),
      updatedAt |-> JsNumber(Head(clock)),
      gameState |-> [ createInitialGameState(JsNumber(size)) EXCEPT
                        !.boards[0].cells[0] = "X" ] ]

(* createGameEntry.  now is read from the clock first (line 72) and        *)
(* createId is called after it (line 74); drawn is what createId draws.    *)
createGameEntry(size, gameNumber, clock, drawn) ==
    [ id        |-> createId(drawn, Tail(clock)),
      name      |-> << "G", "a", "m", "e", " " >> \o NaturalToString(gameNumber),
      createdAt |-> JsNumber(Head(clock)),
      updatedAt |-> JsNumber(Head(clock)),
      gameState |-> createInitialGameState(JsNumber(size)) ]

\* The clock after a call of createGameEntry.
ClockAfterGameEntry(clock, drawn) == ClockAfterCreateId(Tail(clock), drawn)

\* The store createDefaultStore returns (lines 84-90).
DefaultStoreOf(firstGame) ==
    [ version      |-> STORAGE_VERSION,
      activeGameId |-> firstGame.id,
      soundEnabled |-> TRUE,
      sizeInput    |-> NaturalToString(DEFAULT_SIZE),
      games        |-> << firstGame >> ]

(* createDefaultStore *)
createDefaultStore(clock, drawn) ==
    DefaultStoreOf(createGameEntry(DEFAULT_SIZE, 1, clock, drawn))

\* Number.isFinite(rawValue) && rawValue > 0
IsPositiveNumber(rawValue) ==
    /\ rawValue.type = "number"
    /\ (rawValue.value > 0 \/ (rawValue.value = 0 /\ rawValue.chars # << >>))

\* typeof rawValue === "string" ? rawValue.trim() : ""
TrimmedString(rawValue) ==
    IF rawValue.type = "string" THEN Trim(rawValue.chars) ELSE << >>

\* idCandidate && !seenIds.has(idCandidate) (line 101): the saved id is kept.
KeepsSavedId(idCandidate, seenIds) ==
    idCandidate # << >> /\ idCandidate \notin seenIds

\* Mutant of HydratedId: a saved id is kept also when an earlier game of the
\* list has it.
HydratedId_KeepDuplicate(idCandidate, seenIds, drawn, clock) ==
    IF idCandidate # << >> THEN idCandidate ELSE createId(drawn, clock)

\* id of hydrateGames (line 101): the saved id when it is not blank and not
\* seen, the id createId returns otherwise, be it in seenIds or not.
HydratedId(idCandidate, seenIds, drawn, clock) ==
    IF KeepsSavedId(idCandidate, seenIds) THEN idCandidate
    ELSE createId(drawn, clock)

\* Whether a call ended with a throw instead of a state.
IsThrown(result) == "thrown" \in DOMAIN result

\* A run of hydrateGames: the list built (acc), the ids given (seenIds),
\* the clock, what the calls of createId still to come draw, in the order
\* of the calls, and whether a callback has thrown.
StartRun(clock, draws) ==
    [ games   |-> << >>,
      seenIds |-> {},
      clock   |-> clock,
      draws   |-> draws,
      thrown  |-> FALSE ]

\* The entry the callback of hydrateGames pushes (lines 106-121).
HydratedGame(rawGame, index, id, gameState, now) ==
    LET createdAt == IF IsPositiveNumber(Get(rawGame, "createdAt"))
                     THEN Get(rawGame, "createdAt") ELSE JsNumber(now)
    IN [ id        |-> id,
         name      |-> IF TrimmedString(Get(rawGame, "name")) # << >>
                       THEN TrimmedString(Get(rawGame, "name"))
                       ELSE << "G", "a", "m", "e", " " >>
                            \o NaturalToString(index),
         createdAt |-> createdAt,
         updatedAt |-> IF IsPositiveNumber(Get(rawGame, "updatedAt"))
                       THEN Get(rawGame, "updatedAt") ELSE createdAt,
         gameState |-> gameState ]

\* The callback of hydrateGames from line 102 on: id is in seenIds before
\* hydrateGameState is called; when it throws nothing is pushed, and when
\* it returns the clock is read (line 105).  clock and draws are those left
\* by line 101.
HydrateGameWith(rawGame, index, run, id, gameState, clock, draws) ==
    IF IsThrown(gameState)
    THEN [ run EXCEPT !.seenIds = @ \cup {id},
                      !.clock   = clock,
                      !.draws   = draws,
                      !.thrown  = TRUE ]
    ELSE [ run EXCEPT !.games   = Append(@, HydratedGame(rawGame, index, id,
                                                         gameState,
                                                         Head(clock))),
                      !.seenIds = @ \cup {id},
                      !.clock   = Tail(clock),
                      !.draws   = draws ]

\* The callback of hydrateGames (lines 99-123): createId draws, and reads
\* the clock, only when the saved id is not kept.
HydrateGameStep(rawGame, index, run, idCandidate) ==
    HydrateGameWith(rawGame, index, run,
                    HydratedId(idCandidate, run.seenIds, Head(run.draws),
                               run.clock),
                    hydrateGameState(Get(rawGame, "gameState")),
                    IF KeepsSavedId(idCandidate, run.seenIds) THEN run.clock
                    ELSE ClockAfterCreateId(run.clock, Head(run.draws)),
                    IF KeepsSavedId(idCandidate, run.seenIds) THEN run.draws
                    ELSE Tail(run.draws))

RECURSIVE HydrateGamesFrom(_, _, _)
(* The reduce of hydrateGames from item i on; it ends at the first         *)
(* callback that throws.                                                   *)
HydrateGamesFrom(rawItems, i, run) ==
    IF i > Len(rawItems) \/ run.thrown THEN run
    ELSE HydrateGamesFrom(rawItems, i + 1,
                          HydrateGameStep(rawItems[i], i, run,
                                          TrimmedString(Get(rawItems[i], "id"))))

\* hydrateGames with what it leaves of the clock and of the draws.
HydrateGamesRun(rawGames, clock, draws) ==
    IF ~IsArray(rawGames) THEN StartRun(clock, draws)
    ELSE HydrateGamesFrom(rawGames.items, 1, StartRun(clock, draws))

\* What a run of hydrateGames returns or throws.
HydrateGamesResult(run) == IF run.thrown THEN TypeError ELSE run.games

(* hydrateGames: the list of games, or the TypeError hydrateGameState      *)
(* throws.                                                                 *)
hydrateGames(rawGames, clock, draws) ==
    HydrateGamesResult(HydrateGamesRun(rawGames, clock, draws))

\* The text JSON.stringify writes for a value.
JSONStringify(value) == [ type |-> "string", json |-> value ]

SyntaxError == [ thrown |-> TRUE ]

Parsed(value) == [ thrown |-> FALSE, value |-> value ]

\* JSON.parse: the value written when the text was written by
\* JSON.stringify; for the other texts the environment holds, which are not
\* JSON, a SyntaxError.
JSONParse(rawText) ==
    IF "json" \in DOMAIN rawText THEN Parsed(JSONRoundTrip(rawText.json))
    ELSE SyntaxError

\* !rawText
IsEmptyText(rawText) ==
    rawText.type = "null" \/ (rawText.type = "string" /\ rawText = JsString(<< >>))

\* Mutant of GamesOrDefault: the game of the default store is already played.
GamesOrDefault_Played(hydratedGames, clock, drawn) ==
    IF Len(hydratedGames) > 0 THEN hydratedGames
    ELSE << createGameEntry_Played(DEFAULT_SIZE, 1, clock, drawn) >>

\* games of loadGameStore (line 139): the hydrated games, or those of a
\* default store when there is none.
GamesOrDefault(hydratedGames, clock, drawn) ==
    IF Len(hydratedGames) > 0 THEN hydratedGames
    ELSE createDefaultStore(clock, drawn).games

\* The run after line 139: the default store made when no game was
\* hydrated reads the clock and draws an id.
WithGamesOrDefault(run) ==
    IF Len(run.games) > 0 THEN run
    ELSE [ run EXCEPT
             !.games = GamesOrDefault(run.games, run.clock, Head(run.draws)),
             !.clock = ClockAfterGameEntry(run.clock, Head(run.draws)),
             !.draws = Tail(@) ]

\* games.find((game) => game.id === id) ?? games[0]
FindGame(games, id) ==
    IF \E i \in 1 .. Len(games) : games[i].id = id
    THEN games[CHOOSE i \in 1 .. Len(games) :
                  /\ games[i].id = id
                  /\ \A j \in 1 .. i - 1 : games[j].id # id]
    ELSE games[1]

\* Mutant of LoadedActiveGameId: a saved id is kept whether a game has it
\* or not.
LoadedActiveGameId_Unchecked(parsed, games) ==
    IF Get(parsed, "activeGameId").type = "string"
    THEN Get(parsed, "activeGameId").chars
    ELSE games[1].id

\* activeGameId of loadGameStore (lines 140-143).
LoadedActiveGameId(parsed, games) ==
    IF /\ Get(parsed, "activeGameId").type = "string"
       /\ \E i \in 1 .. Len(games) :
             games[i].id = Get(parsed, "activeGameId").chars
    THEN Get(parsed, "activeGameId").chars
    ELSE games[1].id

\* The store loadGameStore returns (lines 144-152).
LoadedStore(parsed, games, activeGameId) ==
    [ version      |-> STORAGE_VERSION,
      activeGameId |-> activeGameId,
      soundEnabled |-> Get(parsed, "soundEnabled") # JsBoolean(FALSE),
      sizeInput    |->
         NaturalToString(
            normalizeSize(
               Coalesce(Get(parsed, "sizeInput"),
                        JsNumber(FindGame(games, activeGameId).gameState.size)))),
      games        |-> games ]

\* loadGameStore once the games are hydrated (lines 139-152).
LoadedWith(parsed, games) ==
    LoadedStore(parsed, games, LoadedActiveGameId(parsed, games))

\* Lines 140-155: the store returned, or the default store made in the
\* catch when hydrateGames has thrown or normalizeSize of the saved
\* sizeInput throws.
LoadedOrCaught(parsed, run) ==
    IF \/ run.thrown
       \/ ToStringThrows(
             Coalesce(Get(parsed, "sizeInput"),
                      JsNumber(FindGame(run.games,
                                        LoadedActiveGameId(parsed, run.games))
                                  .gameState.size)))
    THEN createDefaultStore(run.clock, Head(run.draws))
    ELSE LoadedWith(parsed, run.games)

\* loadGameStore once the games are read (lines 139-155).
LoadedFromRun(parsed, run) ==
    LoadedOrCaught(parsed, IF run.thrown THEN run ELSE WithGamesOrDefault(run))

\* loadGameStore once the text is parsed (lines 138-155).
LoadParsed(parsed, clock, draws) ==
    LoadedFromRun(parsed, HydrateGamesRun(Get(parsed, "games"), clock, draws))

(* loadGameStore.  environment holds what the browser provides: whether   *)
(* there is a localStorage, and the text saved under STORAGE_KEY (null     *)
(* when there is none).  draws holds what the calls of createId draw, in   *)
(* the order of the calls, and clock what the calls of Date.now() return.  *)
(* Whatever is thrown after the storage is found is caught, and a default  *)
(* store made then (line 154).                                             *)
loadGameStore(environment, clock, draws) ==
    IF \/ ~environment.hasLocalStorage
       \/ IsEmptyText(environment.rawText)
       \/ JSONParse(environment.rawText).thrown
    THEN createDefaultStore(clock, Head(draws))
    ELSE LoadParsed(JSONParse(environment.rawText).value, clock, draws)

(* createNextGameEntry *)
createNextGameEntry(size, existingGames, clock, drawn) ==
    createGameEntry(size, Len(existingGames) + 1, clock, drawn)

----------------------------------------------------------------------------
(* A game played call after call.  src/src/App.jsx holds two components.   *)
(* The one of lines 522-610 keeps the game itself in its state and hands   *)
(* every click to makeMove inside the updater of the state,                *)
(*     setGame((currentGame) => makeMove(currentGame, boardIndex,          *)
(*                                       cellIndex))       (lines 547-549) *)
(* so that each call is made on the state the call before it returned,     *)
(* whatever was rendered when the click came.  game is that state; call    *)
(* records the last call made on it: its arguments and whether the value   *)
(* returned differs from the state passed in.  For the construction,       *)
(* call.size is the value the game was created from.  The two buttons of   *)
(* the component replace the state by a new game: handleApplySize (lines   *)
(* 551-555) of the size in the size field, handleRestart (lines 557-559)   *)
(* of the size of the rendered game.  The store-backed                     *)
(* component of lines 70-503, whose handler calls makeMove on the game of  *)
(* its render, is AppSpec below.                                           *)
VARIABLES game, call

vars == <<game, call>>

\* The store-backed App also keeps a store of saved games and renders one
\* entry of it; both are absent where the engine or the loader runs alone.
VARIABLES store, activeGameEntry

NoStore == Null

NoEntry == Null

\* Where the board is rendered (BoardSpec below), game is the game the
\* board was last rendered with and currentGame is the state of the
\* component, which the updater of a click is applied to; elsewhere no
\* render is kept apart from the state.
VARIABLE currentGame

NoGame == Null

\* Values a game is created from: numbers and strings, valid and not.  All
\* of them normalize to size 2 or 3.
SizeInputs ==
    { JsNumber(n) : n \in -1 .. 3 }
    \cup { JsString(chars) : chars \in
             { << >>, << "2" >>, << "3" >>, << " ", "3" >>, << "3", "x" >>,
               << "x", "3" >>, << "-", "3" >>, << "+", "2" >>,
               << "2", ".", "9" >>, << "0", "3" >>, << "1" >>,
               << "\t", "2" >>, << "\n", " ", "3" >>, << "2", "e", "3" >>,
               << "U+2003", "2" >>, << "U+00E9", "2" >> } }
    \cup { JsNull, JsDecimal(2, << "9" >>),
           JsDecimal(0, << "0", "0", "0", "0", "0", "0", "2" >>),
           JsDecimal(0, << "0", "0", "0", "0", "0", "2" >>) }

\* Number of moves at the end of an opening that the caller chooses freely.
FreeMoves == 6

\* One legal game per size, as <<boardIndex, cellIndex>> calls.  The games of
\* size 2 and 3 are complete: the caller follows them up to the last FreeMoves
\* moves and from there makes any call, so that the late game, with its draws
\* and wins, is explored in full.  The game of a larger size is the start of a
\* game, with a board won and a move sent to it, and the caller follows it to
\* its last move.
Opening(size) ==
    IF size > 3 THEN
    <<
       <<0,0>>, <<0,4>>, <<4,0>>, <<0,5>>, <<5,0>>, <<0,6>>, <<6,0>>, <<0,7>>,
       <<7,0>>, <<1,1>> >>
    ELSE IF size = 2 THEN
    <<
       <<0,3>>, <<3,3>>, <<3,1>>, <<1,2>>, <<2,2>>, <<2,3>>, <<3,2>>, <<2,1>>,
       <<1,0>>, <<0,0>>, <<0,2>> >>
    ELSE
    <<
       <<4,2>>, <<2,1>>, <<1,4>>, <<4,7>>, <<7,5>>, <<5,4>>, <<4,3>>, <<3,8>>,
       <<8,7>>, <<7,6>>, <<6,6>>, <<6,3>>, <<3,3>>, <<3,5>>, <<5,3>>, <<3,7>>,
       <<7,8>>, <<8,3>>, <<3,0>>, <<0,6>>, <<6,0>>, <<0,2>>, <<2,4>>, <<4,6>>,
       <<6,1>>, <<1,5>>, <<5,7>>, <<7,1>>, <<1,3>>, <<3,4>>, <<4,0>>, <<0,8>>,
       <<8,1>>, <<1,1>>, <<1,8>>, <<8,4>>, <<4,4>>, <<4,1>>, <<1,6>>, <<6,7>>,
       <<7,7>>, <<7,2>>, <<2,3>>, <<3,1>>, <<1,0>>, <<0,7>>, <<7,0>>, <<2,0>>,
       <<5,0>>, <<2,8>>, <<8,0>>, <<8,8>>, <<8,2>>, <<2,5>>, <<5,1>>, <<4,5>>,
       <<5,8>>, <<6,8>>, <<2,6>>, <<6,4>>, <<4,8>>, <<7,4>>, <<5,5>>, <<5,6>>,
       <<6,5>>, <<5,2>>, <<2,7>>, <<6,2>>, <<2,2>> >>

\* Arguments a call is made with: every index of the grid and one index off
\* each end of it.
BoardInputs(size) == -1 .. size * size

CellInputs(size) == -1 .. size * size

ScriptedMoves(size) ==
    IF size > 3 THEN Len(Opening(size))
    ELSE IF Len(Opening(size)) > FreeMoves THEN Len(Opening(size)) - FreeMoves
    ELSE 0

Inputs(state) ==
    IF state.moveCount < ScriptedMoves(state.size)
    THEN { Opening(state.size)[state.moveCount + 1] }
    ELSE IF state.size > 3 THEN { }
    ELSE BoardInputs(state.size) \X CellInputs(state.size)

Init ==
    \E raw \in SizeInputs :
       /\ game = createInitialGameState(raw)
       /\ call = [ op |-> "create", size |-> raw, boardIndex |-> 0,
                   cellIndex |-> 0, changed |-> FALSE,
                   renderedSize |-> game.size ]
       /\ store = NoStore
       /\ activeGameEntry = NoEntry
       /\ currentGame = NoGame

(* handleCellClick of lines 547-549: the updater replaces the state by     *)
(* what makeMove returns for it.  call.size is the size of the state the   *)
(* call was made on.                                                       *)
Click(boardIndex, cellIndex) ==
    LET nextGame == makeMove(game, boardIndex, cellIndex)
    IN /\ game' = nextGame
       /\ call' = [ op |-> "makeMove", size |-> JsNumber(game.size),
                    boardIndex |-> boardIndex, cellIndex |-> cellIndex,
                    changed |-> nextGame # game,
                    renderedSize |-> game.size ]
       /\ UNCHANGED <<store, activeGameEntry, currentGame>>

\* The texts of the size field when the button "Start New N x N Game" is
\* pressed: the strings a game is created from.
SizeFieldTexts ==
    { raw \in SizeInputs : raw.type = "string" } \cup { JsString(<< "4" >>) }

(* handleApplySize of lines 551-555: the state becomes the new game of the *)
(* size the text of the size field normalizes to.  call.size is that text, *)
(* and call.renderedSize the size of the game that is rendered until the   *)
(* component renders the new one.                                          *)
ApplySizeOfField(sizeInput) ==
    /\ game' = createInitialGameState(JsNumber(normalizeSize(sizeInput)))
    /\ call' = [ op |-> "handleApplySize", size |-> sizeInput,
                 boardIndex |-> 0, cellIndex |-> 0, changed |-> game' # game,
                 renderedSize |-> game.size ]
    /\ UNCHANGED <<store, activeGameEntry, currentGame>>

(* handleRestart of lines 557-559: the state becomes the new game of       *)
(* game.size, the size of the game of the render whose button is pressed:  *)
(* the size of the state, or right after handleApplySize the size of the   *)
(* game it replaced.                                                       *)
RestartOfSize(size) ==
    /\ game' = createInitialGameState(JsNumber(size))
    /\ call' = [ op |-> "handleRestart", size |-> JsNumber(size),
                 boardIndex |-> 0, cellIndex |-> 0, changed |-> game' # game,
                 renderedSize |-> size ]
    /\ UNCHANGED <<store, activeGameEntry, currentGame>>

Next ==
    \/ \E input \in Inputs(game) : Click(input[1], input[2])
    \/ \E sizeInput \in SizeFieldTexts : ApplySizeOfField(sizeInput)
    \/ \E size \in { game.size, call.renderedSize } : RestartOfSize(size)

Spec == Init /\ [][Next]_vars

----------------------------------------------------------------------------
(* The engine called with any value for an index: the integers of Spec,   *)
(* and the names of properties for the board or for the cell.  A call that *)
(* throws returns nothing, and the game stays what it was.                 *)
Call(boardIndex, cellIndex) ==
    /\ game' = IF IsThrown(makeMove(game, boardIndex, cellIndex)) THEN game
               ELSE makeMove(game, boardIndex, cellIndex)
    /\ call' = [ op |-> "makeMove", size |-> JsNumber(game.size),
                 boardIndex |-> boardIndex, cellIndex |-> cellIndex,
                 thrown |-> IsThrown(makeMove(game, boardIndex, cellIndex)),
                 changed |-> game' # game ]
    /\ UNCHANGED <<store, activeGameEntry, currentGame>>

CallNext ==
    \/ \E input \in Inputs(game) : Call(input[1], input[2])
    \/ \E name \in PropertyNames, cellIndex \in CellInputs(game.size) :
          Call(name, cellIndex)
    \/ \E boardIndex \in BoardInputs(game.size), name \in PropertyNames :
          Call(boardIndex, name)

CallSpec == Init /\ [][CallNext]_vars

----------------------------------------------------------------------------
(* A game played to its end, in the component of lines 522-610: the clicks *)
(* that makeMove accepts on the state and, of the others, the click on the *)
(* cell just played, which the updater hands to makeMove on the state that *)
(* holds the marker; a call that makeMove accepts is made as long as there *)
(* is one.                                                                 *)
AcceptedMove ==
    \E input \in Inputs(game) :
       /\ Click(input[1], input[2])
       /\ game' # game

RepeatedClick ==
    /\ call.op = "makeMove"
    /\ call.changed
    /\ Click(call.boardIndex, call.cellIndex)

PlayNext == AcceptedMove \/ RepeatedClick

PlaySpec == Init /\ [][PlayNext]_vars /\ WF_vars(AcceptedMove)

----------------------------------------------------------------------------
(* The board as rendered (src/src/Board3D.jsx) in the component of lines   *)
(* 522-610 of App.jsx.  BoardScene renders the game it is given: every     *)
(* cell gets a disabled flag, computed from that game, and a handler of    *)
(* pointer presses that calls onCellClick only when the flag is false.     *)
(* The flags and the handlers stay those of that render until the board    *)
(* renders again, also after a press has changed the state.                *)

boardVars == <<game, call, currentGame>>

\* Number of handler calls made on a render that is out of date.
MaxPending == 1

\* gameOver of BoardScene: Boolean(game.winner) || game.isDraw
gameOver(state) == state.winner # Null \/ state.isDraw

\* Mutant of disabled: the value of the cell is not looked at.
disabled_AnyCell(state, boardIndex, cellIndex) ==
    \/ gameOver(state)
    \/ isBoardResolved(state.boards[boardIndex])
    \/ ~canPlayInBoard(state, boardIndex)

(* disabled: gameOver || boardResolved || !boardPlayable ||                *)
(* cellValue !== null                                                      *)
disabled(state, boardIndex, cellIndex) ==
    \/ gameOver(state)
    \/ isBoardResolved(state.boards[boardIndex])
    \/ ~canPlayInBoard(state, boardIndex)
    \/ state.boards[boardIndex].cells[cellIndex] # Null

\* The cells the board renders: game.boards.map and board.cells.map.
RenderedCells(state) ==
    { p \in (DOMAIN state.boards) \X Indexes(state.size) :
         p[2] \in DOMAIN state.boards[p[1]].cells }

\* The cells pressed: the scripted opening, then every rendered cell.
PressInputs(state) ==
    IF state.moveCount < ScriptedMoves(state.size)
    THEN { Opening(state.size)[state.moveCount + 1] }
    ELSE RenderedCells(state)

(* The component mounts with a new game of some size and renders it.       *)
(* call.pending counts the presses made on a board that was out of date.   *)
BoardInit ==
    \E raw \in SizeInputs :
       /\ currentGame = createInitialGameState(raw)
       /\ game = currentGame
       /\ call = [ op |-> "create", size |-> raw, pending |-> 0 ]
       /\ store = NoStore
       /\ activeGameEntry = NoEntry

(* The board renders again with the state of the component (App.jsx line   *)
(* 591, Board3D.jsx lines 140-297).                                        *)
BoardScene ==
    /\ game # currentGame
    /\ game' = currentGame
    /\ call' = [ op |-> "render", pending |-> 0 ]
    /\ UNCHANGED <<currentGame, store, activeGameEntry>>

\* The state after onCellClick, handleCellClick of lines 547-549, when the
\* press calls it.
StateAfterPress(isDisabled, state, boardIndex, cellIndex) ==
    IF isDisabled THEN state ELSE makeMove(state, boardIndex, cellIndex)

(* onPointerDown of a rendered cell: disabled is the flag of the last      *)
(* render.  call.invoked tells whether onCellClick was called, and         *)
(* call.changed whether the state of the component changed.                *)
onPointerDown(boardIndex, cellIndex) ==
    /\ call.pending < MaxPending
    /\ currentGame' = StateAfterPress(disabled(game, boardIndex, cellIndex),
                                      currentGame, boardIndex, cellIndex)
    /\ call' = [ op |-> "onPointerDown", boardIndex |-> boardIndex,
                 cellIndex |-> cellIndex,
                 invoked |-> ~disabled(game, boardIndex, cellIndex),
                 changed |-> currentGame' # currentGame,
                 pending |-> IF game # currentGame THEN call.pending + 1
                             ELSE 0 ]
    /\ UNCHANGED <<game, store, activeGameEntry>>

BoardNext ==
    \/ BoardScene
    \/ \E input \in PressInputs(game) : onPointerDown(input[1], input[2])

BoardSpec == BoardInit /\ [][BoardNext]_boardVars

----------------------------------------------------------------------------
(* The loader alone: hydrateGameState applied to a saved record, damaged   *)
(* or not, and then to what the program saves of the state it read.        *)

\* Saved boards, well formed and not.
RawBoardPlayed ==
    JsObject([ cells  |-> JsArray(<< JsString(<< "X" >>), JsString(<< "O" >>),
                                    JsNull, JsString(<< "X" >>) >>),
               winner |-> JsNull,
               isDraw |-> JsBoolean(FALSE) ])

\* Too many cells, and a winner together with the draw flag.
RawBoardWonAndDrawn ==
    JsObject([ cells  |-> JsArray(<< JsString(<< "X" >>), JsString(<< "X" >>),
                                    JsString(<< "O" >>), JsString(<< "O" >>),
                                    JsString(<< "X" >>) >>),
               winner |-> JsString(<< "X" >>),
               isDraw |-> JsBoolean(TRUE) ])

\* Cells and a winner that are not markers, a draw flag that is a number.
RawBoardJunk ==
    JsObject([ cells  |-> JsArray(<< JsString(<< "x" >>), JsNumber(1),
                                    JsBoolean(TRUE), JsString(<< >>) >>),
               winner |-> JsString(<< "Z" >>),
               isDraw |-> JsNumber(1) ])

\* Cells that are a string, no draw flag.
RawBoardNoCells ==
    JsObject([ cells  |-> JsString(<< "X", "O", "X", "O" >>),
               winner |-> JsString(<< "O" >>) ])

\* Too few cells, and a draw flag that is a non-empty string.
RawBoardShort ==
    JsObject([ cells  |-> JsArray(<< JsString(<< "O" >>), JsUndefined >>),
               isDraw |-> JsString(<< "n", "o" >>) ])

RawBoardLists ==
    { JsUndefined,
      JsObject([ length |-> JsNumber(4) ]),
      JsArray(<< >>),
      JsArray(<< RawBoardPlayed >>),
      JsArray(<< RawBoardPlayed, RawBoardWonAndDrawn, RawBoardJunk,
                 RawBoardNoCells >>),
      JsArray(<< RawBoardShort, JsNull, JsNumber(7), RawBoardPlayed,
                 RawBoardWonAndDrawn, RawBoardJunk >>),
      JsArray(<< RawBoardPlayed, RawBoardPlayed, RawBoardNoCells,
                 RawBoardShort >>) }

RawSizes ==
    { JsUndefined, JsNumber(2), JsString(<< "2" >>), JsDecimal(2, << "5" >>),
      JsNumber(1), JsArray(<< JsNumber(2) >>), JsString(<< "U+2028", "2" >>),
      JsString(<< "U+00E9", "2" >>),
      JsDecimal(0, << "0", "0", "0", "0", "0", "0", "2" >>) }

RawMoveCounts ==
    { JsUndefined, JsNull, JsNumber(-1), JsNumber(0), JsNumber(3),
      JsNumber(7), JsDecimal(2, << "5" >>), JsString(<< "3" >>) }

RawBoardIndexes ==
    { JsUndefined, JsNull, JsNumber(-1), JsNumber(0), JsNumber(3),
      JsNumber(4), JsNumber(9), JsDecimal(1, << "5" >>), JsString(<< "1" >>) }

\* currentPlayer, winner and isDraw of a saved record.
RawOutcomes ==
    { << JsUndefined, JsUndefined, JsUndefined >>,
      << JsString(<< "X" >>), JsNull, JsBoolean(FALSE) >>,
      << JsString(<< "O" >>), JsNull, JsBoolean(FALSE) >>,
      << JsString(<< "O" >>), JsString(<< "X" >>), JsBoolean(TRUE) >>,
      << JsString(<< "o" >>), JsString(<< "O" >>), JsBoolean(FALSE) >>,
      << JsNumber(0), JsString(<< "Z" >>), JsNumber(1) >>,
      << JsNull, JsNull, JsString(<< "n", "o" >>) >>,
      << JsString(<< "X" >>), JsNumber(1), JsNull >> }

\* Saved records that are objects.
RawRecords ==
    { JsObject([ size           |-> size,
                 boards         |-> boards,
                 moveCount      |-> moveCount,
                 nextBoardIndex |-> nextBoardIndex,
                 currentPlayer  |-> outcome[1],
                 winner         |-> outcome[2],
                 isDraw         |-> outcome[3] ]) :
        size \in RawSizes, boards \in RawBoardLists,
        moveCount \in RawMoveCounts, nextBoardIndex \in RawBoardIndexes,
        outcome \in RawOutcomes }

\* Saved records that are missing (undefined), null or not an object.
RawNonObjects ==
    { JsUndefined, JsNull, JsNumber(4), JsString(<< "2" >>), JsBoolean(TRUE) }

\* Saved records whose size cannot be converted to a string: an object, or
\* an array with an object in it, that has a field toString.
RawThrowing ==
    { JsObject([ size   |-> JsObject([ toString |-> JsNumber(1) ]),
                 boards |-> JsArray(<< RawBoardPlayed >>) ]),
      JsObject([ size |-> JsArray(<< JsObject([ toString |-> JsNull,
                                                valueOf  |-> JsNull ]) >>) ]) }

RawStates ==
    RawRecords \cup RawNonObjects \cup RawThrowing
    \cup { JsObject(<< >>), JsArray(<< JsNumber(2) >>),
           JsObject([ size |-> JsObject([ valueOf |-> JsNumber(2) ]) ]),
           JsObject([ size |-> JsArray(<< JsNull,
                                          JsObject([ valueOf |-> JsNull ])
                                       >>) ]) }

LoadInit ==
    \E rawState \in RawStates :
       /\ game = hydrateGameState(rawState)
       /\ call = [ op |-> "hydrateGameState", rawState |-> rawState ]
       /\ store = NoStore
       /\ activeGameEntry = NoEntry
       /\ currentGame = NoGame

(* The state read is saved again and read back in a later session; there   *)
(* is none when hydrateGameState has thrown.                               *)
Resave ==
    LET rawState == JSONRoundTrip(GameStateValue(game))
    IN /\ ~IsThrown(game)
       /\ game' = hydrateGameState(rawState)
       /\ call' = [ op |-> "hydrateGameState", rawState |-> rawState ]
       /\ UNCHANGED <<store, activeGameEntry, currentGame>>

LoadNext == Resave

LoadSpec == LoadInit /\ [][LoadNext]_vars

----------------------------------------------------------------------------
(* The size alone: normalizeSize applied to a value that a caller passes   *)
(* or a saved record holds.                                                *)

\* Largest number that is normalized, and largest size a fresh state is
\* looked at for.
MaxCreateSize == 5

\* Longest string that is normalized.
MaxRawLen == 3

\* Characters the strings are made of: white space, signs, digits and a
\* letter, and outside the ASCII range a space and a letter.
SizeAlphabet ==
    { " ", "\t", "-", "+", "0", "1", "2", "x", "U+00A0", "U+00E9" }

SizeStrings ==
    UNION { [ 1 .. len -> SizeAlphabet ] : len \in 0 .. MaxRawLen }

\* The number d * 10^-(zeros + 1), d a digit from 1 to 9.
SmallNumber(zeros, d) ==
    JsDecimal(0, [ i \in 1 .. zeros + 1 |->
                     IF i <= zeros THEN "0" ELSE DigitChars[d + 1] ])

\* Values of the other types, and strings that start with a character that
\* is a space (U+2003, U+3000), a line separator (U+2028) or neither
\* (U+200B, U+0085, U+4E2D).
SizeOthers ==
    { JsNull, JsUndefined, JsBoolean(TRUE), JsArray(<< >>),
      JsArray(<< JsNumber(4) >>), JsArray(<< JsNull, JsNumber(2) >>),
      JsArray(<< JsNumber(2), JsNumber(5) >>),
      JsObject(<< >>), JsObject([ valueOf |-> JsNumber(2) ]),
      JsArray(<< JsObject([ size |-> JsNumber(2) ]) >>),
      JsString(<< "U+2003", "2" >>), JsString(<< "U+3000", "U+2028", "4" >>),
      JsString(<< "U+200B", "2" >>), JsString(<< "U+0085", "2" >>),
      JsString(<< "U+4E2D", "2" >>), JsString(<< "2", "U+00E9", "4" >>) }

\* Values that cannot be converted to a string: an object with a field
\* toString, and an array with one.
SizeThrowing ==
    { JsObject([ toString |-> JsNumber(1) ]),
      JsObject([ toString |-> JsNull, valueOf |-> JsNull ]),
      JsArray(<< JsObject([ toString |-> JsNull ]) >>),
      JsArray(<< JsNumber(1), JsObject([ toString |-> JsString(<< "x" >>) ])
              >>) }

SizeValues ==
    { JsString(chars) : chars \in SizeStrings }
    \cup { JsNumber(n) : n \in -2 .. MaxCreateSize }
    \cup { SmallNumber(zeros, d) : zeros \in 0 .. 7, d \in 1 .. 9 }
    \cup SizeOthers \cup SizeThrowing

SizeInit ==
    \E rawValue \in SizeValues :
       /\ call = [ op |-> "input", rawValue |-> rawValue ]
       /\ game = Null
       /\ store = NoStore
       /\ activeGameEntry = NoEntry
       /\ currentGame = NoGame

(* normalizeSize is called on the value: call.thrown tells whether the    *)
(* call ended with a throw, and call.size is what it returned or threw.    *)
Normalize ==
    /\ call.op = "input"
    /\ call' = [ op       |-> "normalizeSize",
                 rawValue |-> call.rawValue,
                 thrown   |-> ToStringThrows(call.rawValue),
                 size     |-> normalizeSize(call.rawValue) ]
    /\ UNCHANGED <<game, store, activeGameEntry, currentGame>>

SizeNext == Normalize

SizeSpec == SizeInit /\ [][SizeNext]_vars

----------------------------------------------------------------------------
(* The store-backed App (src/src/App.jsx, lines 70-503).  store is the     *)
(* state of the component, every update applied; activeGameEntry and game  *)
(* are what the last render computed from the store, and what the handlers *)
(* created by that render see until the component renders again.           *)

appVars == <<game, call, store, activeGameEntry>>

\* Number of moves after which the rendered game takes no more clicks.
MaxAppMoves == 2

\* Number of games after which no new game is started.
MaxGames == 2

\* Values Date.now() returns: StartTime when the App starts to load the
\* store, LaterTime from some call on.
StartTime == 1

LaterTime == 2

\* The clock while the store is loaded: the time passes from StartTime to
\* LaterTime between two calls.
StartClock ==
    << StartTime, StartTime, StartTime, StartTime,
       LaterTime, LaterTime, LaterTime, LaterTime >>

\* The clock in a handler called after that.
LaterClock == << LaterTime, LaterTime >>

\* currentStore.games.findIndex((entry) => entry.id === id), from 1; 0 when
\* there is none.
FindGameIndex(games, id) ==
    IF \E i \in 1 .. Len(games) : games[i].id = id
    THEN CHOOSE i \in 1 .. Len(games) :
            /\ games[i].id = id
            /\ \A j \in 1 .. i - 1 : games[j].id # id
    ELSE 0

\* The updater of handleCellClick (lines 184-201).
StoreMove(currentStore, entryId, nextGame, now) ==
    LET gameIndex == FindGameIndex(currentStore.games, entryId)
    IN IF gameIndex = 0 THEN currentStore
       ELSE [ currentStore EXCEPT
                !.games[gameIndex].updatedAt = JsNumber(now),
                !.games[gameIndex].gameState = nextGame ]

\* Mutant of handleCellClick: the store is updated whatever makeMove returns.
handleCellClick_NoRejectPath(currentStore, entry, snapshot, boardIndex, cellIndex, now) ==
    StoreMove(currentStore, entry.id,
              makeMove(snapshot, boardIndex, cellIndex), now)

(* handleCellClick: the store after the click.  entry and snapshot are the *)
(* activeGameEntry and game of the render that created the handler.        *)
handleCellClick(currentStore, entry, snapshot, boardIndex, cellIndex, now) ==
    LET nextGame == makeMove(snapshot, boardIndex, cellIndex)
    IN IF nextGame = snapshot THEN currentStore
       ELSE StoreMove(currentStore, entry.id, nextGame, now)

\* The store handleApplySize returns (lines 211-216).
StoreWithNewGame(currentStore, nextSize, newGame) ==
    [ currentStore EXCEPT
        !.sizeInput    = NaturalToString(nextSize),
        !.activeGameId = newGame.id,
        !.games        = Append(currentStore.games, newGame) ]

\* handleApplySize once nextSize is computed (lines 207-216).
ApplySizeOf(currentStore, nextSize, clock, drawn) ==
    StoreWithNewGame(currentStore, nextSize,
                     createNextGameEntry(nextSize, currentStore.games, clock,
                                         drawn))

(* handleApplySize: the store after the updater (lines 206-216). *)
handleApplySize(currentStore, clock, drawn) ==
    ApplySizeOf(currentStore,
                normalizeSize(JsString(currentStore.sizeInput)), clock, drawn)

\* Mutant of RestartGame: the player to move is kept.
RestartGame_KeepPlayer(currentGameEntry) ==
    [ createInitialGameState(JsNumber(currentGameEntry.gameState.size)) EXCEPT
        !.currentPlayer = currentGameEntry.gameState.currentPlayer ]

\* resetGame of handleRestart (line 232).
RestartGame(currentGameEntry) ==
    createInitialGameState(JsNumber(currentGameEntry.gameState.size))

\* Mutant of handleRestart: every game of the store is reset.
handleRestart_EveryGame(currentStore, entry, now) ==
    [ currentStore EXCEPT
        !.sizeInput = NaturalToString(entry.gameState.size),
        !.games = [ i \in 1 .. Len(currentStore.games) |->
                      [ currentStore.games[i] EXCEPT
                          !.updatedAt = JsNumber(now),
                          !.gameState = RestartGame(currentStore.games[i]) ] ] ]

(* handleRestart: the store after the updater (lines 224-245). *)
handleRestart(currentStore, entry, now) ==
    LET gameIndex == FindGameIndex(currentStore.games, entry.id)
    IN IF gameIndex = 0 THEN currentStore
       ELSE LET resetGame == RestartGame(currentStore.games[gameIndex])
            IN [ currentStore EXCEPT
                   !.sizeInput = NaturalToString(resetGame.size),
                   !.games[gameIndex].updatedAt = JsNumber(now),
                   !.games[gameIndex].gameState = resetGame ]

(* handleOpenGame: the store after the updater (lines 249-260). *)
handleOpenGame(currentStore, gameId) ==
    LET gameIndex == FindGameIndex(currentStore.games, gameId)
    IN IF gameIndex = 0 \/ currentStore.activeGameId = gameId
       THEN currentStore
       ELSE [ currentStore EXCEPT
                !.activeGameId = currentStore.games[gameIndex].id,
                !.sizeInput    = NaturalToString(
                                    currentStore.games[gameIndex].gameState.size) ]

\* A store as the object that saveGameStore writes (lines 163-169).
StoreValue(savedStore) ==
    JsObject(
      [ version      |-> JsNumber(savedStore.version),
        activeGameId |-> JsString(savedStore.activeGameId),
        soundEnabled |-> JsBoolean(savedStore.soundEnabled),
        sizeInput    |-> JsString(savedStore.sizeInput),
        games        |->
           JsArray([ i \in 1 .. Len(savedStore.games) |->
              JsObject(
                [ id        |-> JsString(savedStore.games[i].id),
                  name      |-> JsString(savedStore.games[i].name),
                  createdAt |-> savedStore.games[i].createdAt,
                  updatedAt |-> savedStore.games[i].updatedAt,
                  gameState |-> GameStateValue(savedStore.games[i].gameState) ]) ]) ])

\* A store an earlier session left: a 2 x 2 game two moves in, and active.
EarlierStore ==
    [ version      |-> STORAGE_VERSION,
      activeGameId |-> << "b" >>,
      soundEnabled |-> FALSE,
      sizeInput    |-> << "2" >>,
      games        |->
         << [ id        |-> << "b" >>,
              name      |-> << "G", "a", "m", "e", " ", "1" >>,
              createdAt |-> JsNumber(1),
              updatedAt |-> JsNumber(1),
              gameState |->
                 makeMove(makeMove(createInitialGameState(JsNumber(2)), 0, 0),
                          0, 1) ] >> ]

\* UUIDs that crypto.randomUUID() returns, cut down to two characters.
Uuid1 == << "u", "1" >>

Uuid2 == << "u", "2" >>

Uuid3 == << "u", "3" >>

Uuid4 == << "u", "4" >>

\* Saved lists of games whose records are missing or not objects, with
\* ids that are blank, repeated, not strings, or a UUID that an earlier
\* session drew and this one can draw again.
RawGamesUnusable ==
    JsArray(<< JsObject([ id |-> JsString(<< "a" >>) ]),
               JsObject([ id |-> JsString(<< " ", "a" >>),
                          gameState |-> JsNull ]) >>)

RawGamesNotObjects ==
    JsArray(<< JsObject([ id |-> JsNumber(7), gameState |-> JsNumber(5) ]),
               JsString(<< "x" >>),
               JsObject([ id |-> JsString(Uuid1),
                          name |-> JsString(<< "U+00A0", "J", "o", "s",
                                               "U+00E9" >>) ]) >>)

\* A saved list whose game has a move count and no boards: hydrateGameState
\* keeps the count (gameStore.js lines 57-60) over the empty boards it
\* makes.
RawGamesMiscounted ==
    JsArray(<< JsObject([ id |-> JsString(<< "m" >>),
                          gameState |->
                             JsObject([ size      |-> JsNumber(2),
                                        moveCount |-> JsNumber(7) ]) ]) >>)

\* A saved list whose second game has a size that cannot be converted to a
\* string: hydrateGameState throws on it, after an id was drawn for the
\* first game.
RawGamesThrowing ==
    JsArray(<< JsObject([ gameState |-> JsObject([ size |-> JsNumber(2) ]) ]),
               JsObject([ id |-> JsString(<< "a" >>),
                          gameState |->
                             JsObject([ size |->
                                JsObject([ toString |-> JsNumber(1) ]) ]) ]) >>)

\* What the browser can hold when the App starts, and whether it has
\* crypto.randomUUID.
Environments ==
    { [ hasLocalStorage |-> FALSE, rawText |-> JsNull,
        hasRandomUUID |-> TRUE ],
      [ hasLocalStorage |-> FALSE, rawText |-> JsNull,
        hasRandomUUID |-> FALSE ],
      [ hasLocalStorage |-> TRUE,  rawText |-> JsNull,
        hasRandomUUID |-> TRUE ],
      [ hasLocalStorage |-> TRUE,  rawText |-> JsString(<< >>),
        hasRandomUUID |-> TRUE ],
      [ hasLocalStorage |-> TRUE,  rawText |-> JsString(<< "{" >>),
        hasRandomUUID |-> TRUE ],
      [ hasLocalStorage |-> TRUE,
        rawText |-> JSONStringify(JsObject([ games |-> RawGamesNotObjects ])),
        hasRandomUUID |-> FALSE ] }
    \cup { [ hasLocalStorage |-> TRUE, rawText |-> JSONStringify(value),
             hasRandomUUID |-> TRUE ] :
             value \in
               { JsNull,
                 JsObject(<< >>),
                 JsObject([ games |-> JsArray(<< >>),
                            activeGameId |-> JsString(Uuid1),
                            sizeInput |-> JsString(<< "U+2003", "2" >>) ]),
                 JsObject([ games |-> JsArray(<< >>),
                            sizeInput |->
                               JsArray(<< JsObject([ toString |-> JsNull,
                                                     valueOf  |-> JsNull ])
                                       >>) ]),
                 JsObject([ games |-> RawGamesThrowing,
                            activeGameId |-> JsString(<< "a" >>) ]),
                 JsObject([ games |-> JsString(<< "x" >>),
                            soundEnabled |-> JsBoolean(FALSE),
                            sizeInput |->
                               JsDecimal(0, << "0", "0", "0", "0", "0", "0",
                                               "2" >>) ]),
                 JsObject([ games |-> RawGamesUnusable,
                            activeGameId |-> JsString(<< "a" >>) ]),
                 JsObject([ games |-> RawGamesMiscounted,
                            activeGameId |-> JsString(<< "m" >>) ]),
                 JsObject([ games |-> RawGamesNotObjects,
                            activeGameId |-> JsString(<< "z" >>) ]),
                 StoreValue(EarlierStore) } }

\* What the calls of createId draw while the store is loaded, in the order
\* of the calls: UUIDs that differ, UUIDs that repeat, and without
\* crypto.randomUUID numbers that repeat.
LoadDraws(hasRandomUUID) ==
    IF hasRandomUUID
    THEN { << RandomUUID(Uuid1), RandomUUID(Uuid2), RandomUUID(Uuid3) >>,
           << RandomUUID(Uuid1), RandomUUID(Uuid1), RandomUUID(Uuid2) >> }
    ELSE { << MathRandom(7), MathRandom(7), MathRandom(8) >> }

\* What createId draws in a handler: a UUID drawn before or a new one, and
\* without crypto.randomUUID a number drawn before.
HandlerDraws(hasRandomUUID) ==
    IF hasRandomUUID THEN { RandomUUID(Uuid1), RandomUUID(Uuid4) }
    ELSE { MathRandom(7) }

(* The component mounts: the store is loaded and rendered.  call.pending *)
(* counts the handler calls made on a render that was out of date, and     *)
(* call.hasRandomUUID tells whether the browser has crypto.randomUUID.     *)
AppInit ==
    \E environment \in Environments :
       \E draws \in LoadDraws(environment.hasRandomUUID) :
          /\ store = loadGameStore(environment, StartClock, draws)
          /\ activeGameEntry = FindGame(store.games, store.activeGameId)
          /\ game = activeGameEntry.gameState
          /\ currentGame = NoGame
          /\ call = [ op |-> "loadGameStore", environment |-> environment,
                      draws |-> draws, pending |-> 0,
                      hasRandomUUID |-> environment.hasRandomUUID ]

\* The render does not show the active game of a store.
StaleFor(currentStore) ==
    activeGameEntry # FindGame(currentStore.games, currentStore.activeGameId)

\* Handler calls made on a render that was out of date, the one being made
\* included; none when that one brings the store back to what is rendered.
Pending(nextStore) ==
    IF ~StaleFor(nextStore) THEN 0
    ELSE IF StaleFor(store) THEN call.pending + 1
    ELSE call.pending

(* The component renders again after an update (lines 76-81). *)
Render ==
    /\ StaleFor(store)
    /\ activeGameEntry' = FindGame(store.games, store.activeGameId)
    /\ game' = activeGameEntry'.gameState
    /\ call' = [ op |-> "render", pending |-> 0,
                 hasRandomUUID |-> call.hasRandomUUID ]
    /\ UNCHANGED <<store, currentGame>>

\* Arguments of a click in the App: two cells of the first board, and the
\* first cell of a board past the end of the grid.
ClickInputs(size) == { << 0, 0 >>, << 0, 1 >>, << size * size, 0 >> }

(* A cell click, handled by the handler the last render created. *)
CellClick(boardIndex, cellIndex, now) ==
    LET nextStore == handleCellClick(store, activeGameEntry, game, boardIndex,
                                     cellIndex, now)
    IN /\ call.pending < MaxPending
       /\ game.moveCount < MaxAppMoves
       /\ store' = nextStore
       /\ call' = [ op |-> "handleCellClick", boardIndex |-> boardIndex,
                    cellIndex |-> cellIndex,
                    changed |-> makeMove(game, boardIndex, cellIndex) # game,
                    stale |-> StaleFor(store),
                    pending |-> Pending(nextStore),
                    hasRandomUUID |-> call.hasRandomUUID ]
       /\ UNCHANGED <<activeGameEntry, game, currentGame>>

(* The button that starts a new game. *)
ApplySize(clock, drawn) ==
    LET nextStore == handleApplySize(store, clock, drawn)
    IN /\ call.pending < MaxPending
       /\ Len(store.games) < MaxGames
       /\ store' = nextStore
       /\ call' = [ op |-> "handleApplySize", id |-> createId(drawn, Tail(clock)),
                    pending |-> Pending(nextStore),
                    hasRandomUUID |-> call.hasRandomUUID ]
       /\ UNCHANGED <<activeGameEntry, game, currentGame>>

(* The button that restarts the game. *)
Restart(now) ==
    LET nextStore == handleRestart(store, activeGameEntry, now)
    IN /\ call.pending < MaxPending
       /\ store' = nextStore
       /\ call' = [ op |-> "handleRestart", stale |-> StaleFor(store),
                    pending |-> Pending(nextStore),
                    hasRandomUUID |-> call.hasRandomUUID ]
       /\ UNCHANGED <<activeGameEntry, game, currentGame>>

(* A game of the timeline is opened. *)
OpenGame(gameId) ==
    LET nextStore == handleOpenGame(store, gameId)
    IN /\ call.pending < MaxPending
       /\ store' = nextStore
       /\ call' = [ op |-> "handleOpenGame", gameId |-> gameId,
                    pending |-> Pending(nextStore),
                    hasRandomUUID |-> call.hasRandomUUID ]
       /\ UNCHANGED <<activeGameEntry, game, currentGame>>

\* The text typed in the size field.
SizeTexts == { << "2" >> }

(* The size field is edited (lines 392-394). *)
EditSize(text) ==
    LET nextStore == [ store EXCEPT !.sizeInput = text ]
    IN /\ call.pending < MaxPending
       /\ store' = nextStore
       /\ call' = [ op |-> "sizeInput", text |-> text,
                    pending |-> Pending(nextStore),
                    hasRandomUUID |-> call.hasRandomUUID ]
       /\ UNCHANGED <<activeGameEntry, game, currentGame>>

(* The Sound button (lines 283-291). *)
ToggleSound ==
    LET nextStore == [ store EXCEPT !.soundEnabled = ~store.soundEnabled ]
    IN /\ call.pending < MaxPending
       /\ store' = nextStore
       /\ call' = [ op |-> "soundEnabled", pending |-> Pending(nextStore),
                    hasRandomUUID |-> call.hasRandomUUID ]
       /\ UNCHANGED <<activeGameEntry, game, currentGame>>

AppNext ==
    \/ Render
    \/ \E input \in ClickInputs(game.size) :
          CellClick(input[1], input[2], LaterTime)
    \/ \E drawn \in HandlerDraws(call.hasRandomUUID) :
          ApplySize(LaterClock, drawn)
    \/ Restart(LaterTime)
    \/ \E i \in 1 .. Len(store.games) : OpenGame(store.games[i].id)
    \/ \E text \in SizeTexts : EditSize(text)
    \/ ToggleSound

AppSpec == AppInit /\ [][AppNext]_appVars

----------------------------------------------------------------------------
(* Vocabulary of the properties, stated from the rules of the game and not *)
(* from the engine's operators.                                            *)

\* The game is over.
Terminal(state) == state.winner # Null \/ state.isDraw

\* The lines of an n x n grid, as sets of row-major indexes.
GridLines(n) ==
    { { r * n + k : k \in 0 .. n - 1 } : r \in 0 .. n - 1 }
    \cup { { k * n + col : k \in 0 .. n - 1 } : col \in 0 .. n - 1 }
    \cup { { k * n + k : k \in 0 .. n - 1 } }
    \cup { { k * n + (n - 1 - k) : k \in 0 .. n - 1 } }

\* Some line of the grid holds only marker m.
FullLine(cells, n, m) ==
    \E line \in GridLines(n) : \A i \in line : cells[i] = m

\* The occupied cells of a state, as <<board, cell>> pairs.
OccupiedCells(state) ==
    { p \in (DOMAIN state.boards) \X Indexes(state.size) :
         state.boards[p[1]].cells[p[2]] \in Markers }

\* The last call was a makeMove that returned a new state.
Accepted == call.op = "makeMove" /\ call.changed

\* The last call was a makeMove that returned the state it was given.
Rejected == call.op = "makeMove" /\ ~call.changed

----------------------------------------------------------------------------
\* C1: in every reachable state, makeMove on a playable board at a cell that
\* already holds X or O returns the state it was given, no field changed.
C1_OccupiedCellRejected ==
    \A b \in BoardInputs(game.size), c \in CellInputs(game.size) :
       ( /\ canPlayInBoard(game, b)
         /\ c \in Indexes(game.size)
         /\ game.boards[b].cells[c] \in Markers )
       => makeMove(game, b, c) = game

\* C1 witness: a call on a playable board at an occupied cell was made and
\* returned the state unchanged.
C1_Witness ==
    /\ Rejected
    /\ canPlayInBoard(game, call.boardIndex)
    /\ call.cellIndex \in Indexes(game.size)
    /\ game.boards[call.boardIndex].cells[call.cellIndex] \in Markers

\* C2: in every reachable state, makeMove on a board for which canPlayInBoard
\* is false returns the state it was given for every cell index, an empty
\* cell included.
C2_UnplayableBoardRejected ==
    \A b \in BoardInputs(game.size), c \in CellInputs(game.size) :
       ~canPlayInBoard(game, b) => makeMove(game, b, c) = game

\* C2 witness: a call at an empty cell of an open board was rejected, in a
\* game that is not over, because another board is forced.
C2_Witness ==
    /\ Rejected
    /\ ~Terminal(game)
    /\ call.boardIndex \in DOMAIN game.boards
    /\ call.cellIndex \in Indexes(game.size)
    /\ ~isBoardResolved(game.boards[call.boardIndex])
    /\ game.boards[call.boardIndex].cells[call.cellIndex] = Null
    /\ game.nextBoardIndex # NoIndex
    /\ game.nextBoardIndex # IndexOf(call.boardIndex)

\* C3: in every reachable state that has a winner or is a draw, makeMove
\* returns the state it was given for every boardIndex and cellIndex: no
\* call made on a terminal state, and so no later call of the game, changes
\* a field of it.
C3_TerminalFrozen ==
    Terminal(game) =>
       \A b \in BoardInputs(game.size), c \in CellInputs(game.size) :
          makeMove(game, b, c) = game

\* C3 witness: a call at an empty cell of an open board was made after the
\* game was won, and returned the state unchanged.
C3_Witness ==
    /\ Rejected
    /\ game.winner # Null
    /\ call.boardIndex \in DOMAIN game.boards
    /\ call.cellIndex \in Indexes(game.size)
    /\ ~isBoardResolved(game.boards[call.boardIndex])
    /\ game.boards[call.boardIndex].cells[call.cellIndex] = Null

\* C4: in every reachable state the top-level winner and isDraw are not set
\* together, and neither are the winner and isDraw of any local board.
C4_WinnerDrawExclusive ==
    /\ ~(game.winner # Null /\ game.isDraw)
    /\ \A b \in DOMAIN game.boards :
          ~(game.boards[b].winner # Null /\ game.boards[b].isDraw)

\* C4 witness: one accepted move completed a meta-line and resolved the
\* last open local board (the board it was played in).
C4_Witness ==
    /\ Accepted
    /\ game.winner # Null
    /\ \A b \in DOMAIN game.boards : isBoardResolved(game.boards[b])

\* The move count after an accepted call is one more than before it.
C5_CountsOne(state, next) ==
    next # state => next.moveCount = state.moveCount + 1

\* C5: every accepted makeMove increases moveCount by exactly 1, and in
\* every reachable state moveCount is the number of occupied cells.
C5_MoveCount ==
    /\ game.moveCount = Cardinality(OccupiedCells(game))
    /\ \A b \in BoardInputs(game.size), c \in CellInputs(game.size) :
          C5_CountsOne(game, makeMove(game, b, c))

\* C5 witness: an accepted move in the freely played part of a game.
C5_Witness ==
    /\ Accepted
    /\ game.moveCount > ScriptedMoves(game.size)
    /\ Cardinality(OccupiedCells(game)) = game.moveCount

\* C6: for every local board of every reachable state, the winner is m
\* exactly when a row, a column or a diagonal of its cells is all m, and
\* isDraw holds exactly when every cell is occupied and no such line exists.
C6_LocalOutcome ==
    \A b \in DOMAIN game.boards :
       LET board == game.boards[b]
       IN /\ \A m \in Markers :
                board.winner = m <=> FullLine(board.cells, game.size, m)
          /\ board.isDraw <=>
                /\ \A c \in DOMAIN board.cells : board.cells[c] \in Markers
                /\ \A m \in Markers : ~FullLine(board.cells, game.size, m)

\* C6 witness: the board just played in has filled up with no line and is a
\* draw, while other boards are won.
C6_Witness ==
    /\ Accepted
    /\ game.boards[call.boardIndex].isDraw
    /\ game.boards[call.boardIndex].winner = Null
    /\ \E b \in DOMAIN game.boards : game.boards[b].winner \in Markers

\* C7: in every reachable state the top-level winner is m exactly when a
\* row, a column or a diagonal of the meta grid holds only boards won by m;
\* an open or drawn board counts as empty.
C7_MetaWinner ==
    \A m \in Markers :
       game.winner = m <=>
          \E line \in GridLines(game.size) :
             \A b \in line : game.boards[b].winner = m

\* C7 witness: an accepted move made its board a draw on a meta-line whose
\* other boards are all won by one marker, and that line wins nothing.
C7_Witness ==
    /\ Accepted
    /\ game.winner = Null
    /\ game.boards[call.boardIndex].isDraw
    /\ \E line \in GridLines(game.size), m \in Markers :
          /\ call.boardIndex \in line
          /\ \A b \in line \ {call.boardIndex} : game.boards[b].winner = m

\* C8: in every reachable state the top-level isDraw holds exactly when
\* there is no meta winner and every local board is resolved.
C8_MetaDraw ==
    game.isDraw <=>
       /\ \A m \in Markers :
             ~\E line \in GridLines(game.size) :
                 \A b \in line : game.boards[b].winner = m
       /\ \A b \in DOMAIN game.boards :
             game.boards[b].winner \in Markers \/ game.boards[b].isDraw

\* C8 witness: an accepted move resolved the last open board with no
\* meta-line, and the game is a draw.
C8_Witness ==
    /\ Accepted
    /\ game.isDraw
    /\ game.winner = Null

\* C9: after an accepted makeMove(s, b, c) that does not end the game, the
\* forced board is c exactly when local board c is unresolved in the new
\* state, and is null otherwise.
C9_ForcedBoardRule ==
    (Accepted /\ ~Terminal(game)) =>
       IF isBoardResolved(game.boards[call.cellIndex])
       THEN game.nextBoardIndex = NoIndex
       ELSE game.nextBoardIndex = IndexOf(call.cellIndex)

\* C9 witness: the move was played at cell b of board b and resolved that
\* very board, the game goes on, and no board is forced.
C9_Witness ==
    /\ Accepted
    /\ ~Terminal(game)
    /\ call.cellIndex = call.boardIndex
    /\ isBoardResolved(game.boards[call.boardIndex])
    /\ game.nextBoardIndex = NoIndex

\* C10: in every reachable state the forced board index, when not null, is
\* in 0..N*N-1 and names an unresolved board, and it is null in every
\* terminal state.
C10_ForcedBoardValid ==
    /\ game.nextBoardIndex # NoIndex =>
          /\ Len(game.nextBoardIndex) = 1
          /\ game.nextBoardIndex[1] \in 0 .. game.size * game.size - 1
          /\ ~isBoardResolved(game.boards[game.nextBoardIndex[1]])
    /\ Terminal(game) => game.nextBoardIndex = NoIndex

\* C10 witness: a move ended the game at a cell whose matching board is
\* still open, and no board is forced.
C10_Witness ==
    /\ Accepted
    /\ Terminal(game)
    /\ ~isBoardResolved(game.boards[call.cellIndex])
    /\ game.nextBoardIndex = NoIndex

----------------------------------------------------------------------------
\* A local board is resolved: it has a winner or is a draw.
Resolved(board) == board.winner \in Markers \/ board.isDraw

\* The entries of an array, as a set.
Elements(seq) == { seq[i] : i \in 1 .. Len(seq) }

\* The resolved boards of a state are the same in the state a call returns.
C11_KeepsResolved(state, next) ==
    \A i \in DOMAIN state.boards :
       Resolved(state.boards[i]) => next.boards[i] = state.boards[i]

\* C11: in every reachable state, a local board that has a winner or is a
\* draw has the same winner, isDraw and cells in the state that makeMove
\* returns for any call, and so in every later state of the game.
C11_ResolvedBoardFrozen ==
    \A b \in BoardInputs(game.size), c \in CellInputs(game.size) :
       C11_KeepsResolved(game, makeMove(game, b, c))

\* C11 witness: a call at an empty cell of a won board was made while the
\* game goes on and no board is forced, and it was rejected.
C11_Witness ==
    /\ Rejected
    /\ ~Terminal(game)
    /\ game.nextBoardIndex = NoIndex
    /\ call.boardIndex \in DOMAIN game.boards
    /\ call.cellIndex \in Indexes(game.size)
    /\ game.boards[call.boardIndex].winner \in Markers
    /\ game.boards[call.boardIndex].cells[call.cellIndex] = Null

\* The markers of a state are in the same cells of the state a call returns.
C12_KeepsMarkers(state, next) ==
    \A i \in DOMAIN state.boards : \A j \in DOMAIN state.boards[i].cells :
       state.boards[i].cells[j] \in Markers
          => next.boards[i].cells[j] = state.boards[i].cells[j]

\* C12: in every reachable state, a cell that holds X or O holds the same
\* marker in the state that makeMove returns for any call, and so in every
\* later state reached by makeMove calls.
C12_MarkerImmutable ==
    \A b \in BoardInputs(game.size), c \in CellInputs(game.size) :
       C12_KeepsMarkers(game, makeMove(game, b, c))

\* C12 witness: a move was accepted in a board that holds markers of both
\* players in its other cells.
C12_Witness ==
    /\ Accepted
    /\ \E c, d \in Indexes(game.size) \ {call.cellIndex} :
          /\ game.boards[call.boardIndex].cells[c] = "X"
          /\ game.boards[call.boardIndex].cells[d] = "O"

\* What C13 says canPlayInBoard is: the game is not over, b is in range,
\* board b is unresolved, and no forced board is active or it is b.
C13_Playable(state, b) ==
    /\ state.winner = Null
    /\ ~state.isDraw
    /\ b \in 0 .. state.size * state.size - 1
    /\ ~Resolved(state.boards[b])
    /\ \/ state.nextBoardIndex = NoIndex
       \/ state.nextBoardIndex[1] \notin DOMAIN state.boards
       \/ Resolved(state.boards[state.nextBoardIndex[1]])
       \/ state.nextBoardIndex[1] = b

\* The states C13 is checked on: the current state with any forced board
\* index a saved game can carry, the index of a resolved board and an index
\* off the grid included.
C13_States ==
    { [game EXCEPT !.nextBoardIndex = f] :
         f \in {NoIndex} \cup { IndexOf(i) : i \in BoardInputs(game.size) } }

\* C13: canPlayInBoard(s, b) is true exactly when the game is not over, b is
\* in range, board b is unresolved, and either no forced board is active
\* (null, or pointing at a resolved or missing board) or it is b.
C13_CanPlayInBoard ==
    \A s \in C13_States : \A b \in BoardInputs(game.size) :
       canPlayInBoard(s, b) <=> C13_Playable(s, b)

\* C13 witness: a call on the forced board was made; pointing the forced
\* index at a resolved board instead makes every open board playable.
C13_Witness ==
    /\ call.op = "makeMove"
    /\ ~Terminal(game)
    /\ game.nextBoardIndex = IndexOf(call.boardIndex)
    /\ canPlayInBoard(game, call.boardIndex)
    /\ \E r \in DOMAIN game.boards :
          /\ Resolved(game.boards[r])
          /\ \E b \in DOMAIN game.boards \ {call.boardIndex} :
                canPlayInBoard([game EXCEPT !.nextBoardIndex = IndexOf(r)], b)

\* C14: getAllowedBoardIndexes returns, strictly ascending, exactly the
\* indexes b with canPlayInBoard true: the forced index alone when a board is
\* forced, every unresolved board when none is, nothing in a terminal state.
C14_AllowedBoardIndexes ==
    LET allowed == getAllowedBoardIndexes(game)
    IN /\ \A i \in 1 .. Len(allowed) - 1 : allowed[i] < allowed[i + 1]
       /\ Elements(allowed) =
             { b \in 0 .. game.size * game.size - 1 : canPlayInBoard(game, b) }
       /\ Terminal(game) => allowed = << >>
       /\ (~Terminal(game) /\ game.nextBoardIndex # NoIndex)
             => allowed = game.nextBoardIndex
       /\ (~Terminal(game) /\ game.nextBoardIndex = NoIndex)
             => Elements(allowed) =
                   { b \in DOMAIN game.boards : ~Resolved(game.boards[b]) }

\* C14 witness: after an accepted move no board is forced, some board is
\* resolved, and several boards, board 0 among them, are allowed.
C14_Witness ==
    /\ Accepted
    /\ ~Terminal(game)
    /\ game.nextBoardIndex = NoIndex
    /\ \E b \in DOMAIN game.boards : Resolved(game.boards[b])
    /\ Len(getAllowedBoardIndexes(game)) >= 2
    /\ getAllowedBoardIndexes(game)[1] = 0

\* A fresh state of size n.
C15_Fresh(state, n) ==
    /\ state.size = n
    /\ DOMAIN state.boards = 0 .. n * n - 1
    /\ \A b \in DOMAIN state.boards :
          /\ DOMAIN state.boards[b].cells = 0 .. n * n - 1
          /\ \A c \in DOMAIN state.boards[b].cells :
                state.boards[b].cells[c] = Null
          /\ state.boards[b].winner = Null
          /\ state.boards[b].isDraw = FALSE
    /\ state.currentPlayer = "X"
    /\ state.nextBoardIndex = NoIndex
    /\ state.winner = Null
    /\ state.isDraw = FALSE
    /\ state.moveCount = 0

\* C15: for every size N >= 2, createInitialGameState(N) has size N, N*N
\* boards of N*N empty cells with no winner or draw, X to move, no forced
\* board, no winner, isDraw false and moveCount 0.
C15_InitialState ==
    call.op = "create" =>
       /\ \A n \in 2 .. MaxCreateSize :
             C15_Fresh(createInitialGameState(JsNumber(n)), n)
       /\ (call.size.type = "number" /\ call.size.value >= 2)
             => C15_Fresh(game, call.size.value)

\* C15 witness: a game was created from the number 2.
C15_Witness ==
    /\ call.op = "create"
    /\ call.size = JsNumber(2)
    /\ game.size = 2
    /\ Cardinality(DOMAIN game.boards) = 4

\* The last call was normalizeSize on call.rawValue.
Normalized == call.op = "normalizeSize"

RECURSIVE C16_Decimal(_)
\* The number a run of digits writes, least significant digit last.
C16_Decimal(digits) ==
    IF digits = << >> THEN 0
    ELSE 10 * C16_Decimal(SubSeq(digits, 1, Len(digits) - 1))
         + DigitValue(digits[Len(digits)])

\* The integers a string parses to (one at most): white space up to
\* position i, an optional sign, then digits up to position j, which no
\* digit follows.
C16_Parses(chars) ==
    { IF t[2] = 1 /\ chars[t[1] + 1] = "-"
      THEN 0 - C16_Decimal(SubSeq(chars, t[1] + t[2] + 1, t[3]))
      ELSE C16_Decimal(SubSeq(chars, t[1] + t[2] + 1, t[3])) :
         t \in { u \in (0 .. Len(chars)) \X (0 .. 1) \X (1 .. Len(chars)) :
                    /\ \A p \in 1 .. u[1] :
                          chars[p] \in { " ", "\t", "U+00A0", "U+2003",
                                         "U+3000", "U+2028" }
                    /\ u[1] + u[2] + 1 <= u[3]
                    /\ u[2] = 1 => chars[u[1] + 1] \in {"-", "+"}
                    /\ \A p \in u[1] + u[2] + 1 .. u[3] : IsDigit(chars[p])
                    /\ u[3] < Len(chars) => ~IsDigit(chars[u[3] + 1]) } }

\* normalizeSize returns for every value: it never throws.
C16_Total == Normalized => ~call.thrown

\* What normalizeSize returns when it returns: an integer that is at least
\* 2; n for a string or an integer that parses to an integer n >= 2, and 3
\* for one that parses to no integer or to one below 2.  A number is parsed
\* as the text it is written as: d * 10^-k is written "0.0...d" and parses
\* to 0 down to 10^-6, and is written "de-k" and parses to d below that.
C16_Value ==
    (Normalized /\ ~call.thrown) =>
       /\ call.size \in Int
       /\ call.size >= 2
       /\ call.rawValue.type = "string" =>
             /\ \A n \in C16_Parses(call.rawValue.chars) :
                   call.size = IF n >= 2 THEN n ELSE 3
             /\ C16_Parses(call.rawValue.chars) = {} => call.size = 3
       /\ (call.rawValue.type = "number" /\ call.rawValue.chars = << >>) =>
             call.size = IF call.rawValue.value >= 2
                         THEN call.rawValue.value ELSE 3
       /\ \A zeros \in 0 .. 7 : \A d \in 1 .. 9 :
             call.rawValue = SmallNumber(zeros, d) =>
                call.size = IF zeros >= 6 /\ d >= 2 THEN d ELSE 3
       /\ call.rawValue.type \in { "null", "undefined", "boolean", "object" }
             => call.size = 3

\* C16: normalizeSize is total and always returns an integer >= 2: n for
\* an input that parses to an integer n >= 2, and 3 for an input that
\* parses to no integer or to one below 2.
C16_NormalizeSize == C16_Total /\ C16_Value

\* A value was normalized that parses to no integer or to one below 2, or a
\* number below 10^-6, and normalizeSize returned.
C16_Returned ==
    /\ Normalized
    /\ ~call.thrown
    /\ \/ call.rawValue = JsString(<< "x", "2" >>) /\ call.size = 3
       \/ call.rawValue = JsNumber(1) /\ call.size = 3
       \/ call.rawValue = SmallNumber(6, 2) /\ call.size = 2
       \/ call.rawValue = JsString(<< "U+00A0", "2" >>) /\ call.size = 2

\* The current player after an accepted call.
C17_Advances(state, next) ==
    next # state =>
       IF Terminal(next)
       THEN next.currentPlayer = state.currentPlayer
       ELSE /\ next.currentPlayer # state.currentPlayer
            /\ next.currentPlayer \in Markers

\* C17: after an accepted makeMove the current player is the other marker
\* exactly when the resulting state is not terminal, and is the player who
\* moved when the move ended the game.
C17_PlayerAdvance ==
    \A b \in BoardInputs(game.size), c \in CellInputs(game.size) :
       C17_Advances(game, makeMove(game, b, c))

\* C17 witness: a move ended the game, and the current player is the one
\* whose marker it placed.
C17_Witness ==
    /\ Accepted
    /\ Terminal(game)
    /\ game.boards[call.boardIndex].cells[call.cellIndex] = game.currentPlayer

\* The resolved boards of a state are resolved, and not allowed, in the
\* state a call returns.
C18_StaysResolved(state, next) ==
    \A i \in DOMAIN state.boards :
       Resolved(state.boards[i])
          => /\ Resolved(next.boards[i])
             /\ i \notin Elements(getAllowedBoardIndexes(next))

\* C18: in every reachable state a resolved local board is not in
\* getAllowedBoardIndexes, and it is resolved and not allowed in the state
\* that makeMove returns for any call, and so in every later state of the
\* game.
C18_ResolvedNeverAllowed ==
    /\ \A i \in DOMAIN game.boards :
          Resolved(game.boards[i])
             => i \notin Elements(getAllowedBoardIndexes(game))
    /\ \A b \in BoardInputs(game.size), c \in CellInputs(game.size) :
          C18_StaysResolved(game, makeMove(game, b, c))

\* C18 witness: a call on a board that filled up with no line was made while
\* the game goes on and other boards are allowed, and it was rejected.
C18_Witness ==
    /\ Rejected
    /\ ~Terminal(game)
    /\ call.boardIndex \in DOMAIN game.boards
    /\ game.boards[call.boardIndex].isDraw
    /\ game.boards[call.boardIndex].winner = Null
    /\ getAllowedBoardIndexes(game) # << >>
    /\ call.boardIndex \notin Elements(getAllowedBoardIndexes(game))

\* C19: makeMove never raises, and returns the state it was given for every
\* boardIndex outside 0..N*N-1 and for every cellIndex outside 0..N*N-1 on
\* a playable board, whether the index is an integer off the grid or the
\* name of a property.
C19_OutOfRangeRejected ==
    /\ \A b \in BoardInputs(game.size), c \in CellInputs(game.size) :
          ( \/ b \notin 0 .. game.size * game.size - 1
            \/ c \notin 0 .. game.size * game.size - 1 )
          => makeMove(game, b, c) = game
    /\ \A name \in PropertyNames, c \in CellInputs(game.size) :
          makeMove(game, name, c) = game
    /\ \A b \in BoardInputs(game.size), name \in PropertyNames :
          makeMove(game, b, name) = game
    /\ call.op = "makeMove" => ~call.thrown

\* What holds of C19: makeMove returns the state it was given for every
\* integer off the grid, for every name as cellIndex, and for a name as
\* boardIndex whenever it returns.
C19_RejectedUnlessThrown ==
    /\ \A b \in BoardInputs(game.size), c \in CellInputs(game.size) :
          ( \/ b \notin 0 .. game.size * game.size - 1
            \/ c \notin 0 .. game.size * game.size - 1 )
          => makeMove(game, b, c) = game
    /\ \A name \in PropertyNames, c \in CellInputs(game.size) :
          \/ makeMove(game, name, c) = game
          \/ /\ makeMove(game, name, c) = TypeError
             /\ name \in ArrayProperties
             /\ ~Terminal(game)
             /\ getForcedBoardIndexIfPlayable(game) = NoIndex
    /\ \A b \in BoardInputs(game.size), name \in PropertyNames :
          makeMove(game, b, name) = game

\* A call with the name of a property for boardIndex threw, in a game that
\* holds moves.
C19_Thrown ==
    /\ call.op = "makeMove"
    /\ call.thrown
    /\ ~call.changed
    /\ game.moveCount > 0

\* C20: after every accepted makeMove the state carries a lastMove record
\* with the board index, the cell index, the player who moved and the new
\* moveCount.
C20_LastMoveRecorded ==
    Accepted =>
       /\ "lastMove" \in DOMAIN game
       /\ game.lastMove.boardIndex = call.boardIndex
       /\ game.lastMove.cellIndex = call.cellIndex
       /\ game.lastMove.player
             = game.boards[call.boardIndex].cells[call.cellIndex]
       /\ game.lastMove.moveNumber = game.moveCount

----------------------------------------------------------------------------
\* What an accepted call on board b and cell c keeps: the size, the other
\* boards, and the other cells of board b.
C21_Frame(state, next, b, c) ==
    /\ next.size = state.size
    /\ DOMAIN next.boards = DOMAIN state.boards
    /\ \A i \in DOMAIN state.boards \ {b} :
          /\ next.boards[i].cells = state.boards[i].cells
          /\ next.boards[i].winner = state.boards[i].winner
          /\ next.boards[i].isDraw = state.boards[i].isDraw
    /\ DOMAIN next.boards[b].cells = DOMAIN state.boards[b].cells
    /\ \A j \in DOMAIN state.boards[b].cells \ {c} :
          next.boards[b].cells[j] = state.boards[b].cells[j]

\* C21: an accepted makeMove(s, b, c) leaves s as it was, every write going
\* to a copy, and changes only what the rules require: the size is the
\* same, every board other than b has the cells, winner and isDraw it had
\* in s, and in board b every cell other than c is the same.
C21_MoveFrame ==
    \A b \in BoardInputs(game.size), c \in CellInputs(game.size) :
       makeMove(game, b, c) # game =>
          /\ ArgumentAfter(game, b, c) = game
          /\ C21_Frame(game, makeMove(game, b, c), b, c)

\* C21 witness: a move was accepted that won its board, while another board
\* is won and another is open with the played cell empty.
C21_Witness ==
    /\ Accepted
    /\ game.boards[call.boardIndex].winner \in Markers
    /\ \E b, e \in DOMAIN game.boards \ {call.boardIndex} :
          /\ game.boards[b].winner \in Markers
          /\ ~Resolved(game.boards[e])
          /\ game.boards[e].cells[call.cellIndex] = Null

----------------------------------------------------------------------------
\* getLineWinner with the players tried in the other order: O, then X.
C22_OFirst(cells, n) ==
    IF FullLine(cells, n, "O") THEN "O"
    ELSE IF FullLine(cells, n, "X") THEN "X"
    ELSE Null

\* Marker m holds all but one cell of some line of the grid and the last
\* cell of that line is empty.
C22_OneShort(cells, n, m) ==
    \E line \in GridLines(n) : \E last \in line :
       /\ cells[last] = Null
       /\ \A i \in line \ {last} : cells[i] = m

\* C22: in every reachable state no local board holds a complete line of X
\* together with a complete line of O, and the meta grid holds no complete
\* line of X-won boards together with a complete line of O-won boards; so
\* trying O before X in getLineWinner gives the same result everywhere.
C22_NoDoubleLine ==
    LET metaCells == [ b \in DOMAIN game.boards |-> game.boards[b].winner ]
    IN /\ \A b \in DOMAIN game.boards :
             /\ ~( /\ FullLine(game.boards[b].cells, game.size, "X")
                   /\ FullLine(game.boards[b].cells, game.size, "O") )
             /\ getLineWinner(game.boards[b].cells, game.size)
                   = C22_OFirst(game.boards[b].cells, game.size)
       /\ ~( /\ FullLine(metaCells, game.size, "X")
             /\ FullLine(metaCells, game.size, "O") )
       /\ getLineWinner(metaCells, game.size)
             = C22_OFirst(metaCells, game.size)

\* C22 witness: a move was accepted that won the game with a line of boards
\* while the other player was one board short of a line on the meta grid,
\* and some won board holds a line of the other marker that is one cell
\* short.
C22_Witness ==
    LET metaCells == [ b \in DOMAIN game.boards |-> game.boards[b].winner ]
    IN /\ Accepted
       /\ game.winner \in Markers
       /\ C22_OneShort(metaCells, game.size, togglePlayer(game.winner))
       /\ \E b \in DOMAIN game.boards :
             /\ game.boards[b].winner \in Markers
             /\ C22_OneShort(game.boards[b].cells, game.size,
                             togglePlayer(game.boards[b].winner))

----------------------------------------------------------------------------
\* The state read back from the saved form of a state.
Reloaded(state) == hydrateGameState(JSONRoundTrip(GameStateValue(state)))

\* C23: every reachable game state, saved as JSON and read back through
\* hydrateGameState, has the same size, the same cells, winner and isDraw in
\* every board, and the same currentPlayer, forced board index, winner,
\* isDraw and moveCount.
C23_RoundTrip ==
    LET loaded == Reloaded(game)
    IN /\ loaded.size = game.size
       /\ DOMAIN loaded.boards = DOMAIN game.boards
       /\ \A b \in DOMAIN game.boards :
             /\ loaded.boards[b].cells = game.boards[b].cells
             /\ loaded.boards[b].winner = game.boards[b].winner
             /\ loaded.boards[b].isDraw = game.boards[b].isDraw
       /\ loaded.currentPlayer = game.currentPlayer
       /\ loaded.nextBoardIndex = game.nextBoardIndex
       /\ loaded.winner = game.winner
       /\ loaded.isDraw = game.isDraw
       /\ loaded.moveCount = game.moveCount

\* C23 witness: a move was accepted after which O is to move in a forced
\* board, one board is won by X, one by O and one is drawn.
C23_Witness ==
    /\ Accepted
    /\ game.currentPlayer = "O"
    /\ game.nextBoardIndex # NoIndex
    /\ \E b, d, e \in DOMAIN game.boards :
          /\ game.boards[b].winner = "X"
          /\ game.boards[d].winner = "O"
          /\ game.boards[e].isDraw

----------------------------------------------------------------------------
\* The last call was hydrateGameState on call.rawState, and game is the
\* state it returned: it did not throw.
Hydrated == call.op = "hydrateGameState" /\ ~IsThrown(game)

\* The saved board b of a record, undefined when the record has none.
SavedBoard(rawState, b) ==
    LET boards == Get(rawState, "boards")
    IN IF boards.type = "array" /\ b < Len(boards.items)
       THEN boards.items[b + 1] ELSE JsUndefined

\* The saved value of cell c of board b of a record, undefined when the
\* record has no such cell.
SavedCell(rawState, b, c) ==
    LET cells == Get(SavedBoard(rawState, b), "cells")
    IN IF cells.type = "array" /\ c < Len(cells.items)
       THEN cells.items[c + 1] ELSE JsUndefined

\* The saved winner of board b of a record.
SavedBoardWinner(rawState, b) == Get(SavedBoard(rawState, b), "winner")

\* The marker a saved value stands for: X for the string X, O for the
\* string O, empty for every other value.
MarkerOf(value) ==
    IF value = JsString(<< "X" >>) THEN "X"
    ELSE IF value = JsString(<< "O" >>) THEN "O"
    ELSE Null

\* hydrateGameState returns for every record: it never throws.
C24_Total == call.op = "hydrateGameState" => ~IsThrown(game)

\* The state hydrateGameState returns, when it returns, is well shaped:
\* size at least 2, N*N boards of N*N cells, every cell and winner X, O or
\* empty (the saved value when it is X or O, empty otherwise), currentPlayer
\* X or O, never a winner together with isDraw in a board or in the game,
\* and a forced board index that is the saved one when that is an integer
\* in 0..N*N-1 and none otherwise.
C24_Shape ==
    Hydrated =>
       LET n == game.size
           rawIndex == Get(call.rawState, "nextBoardIndex")
       IN /\ n \in Nat /\ n >= 2
          /\ DOMAIN game.boards = 0 .. n * n - 1
          /\ \A b \in DOMAIN game.boards :
                /\ DOMAIN game.boards[b].cells = 0 .. n * n - 1
                /\ \A c \in DOMAIN game.boards[b].cells :
                      game.boards[b].cells[c]
                         = MarkerOf(SavedCell(call.rawState, b, c))
                /\ game.boards[b].winner
                      = MarkerOf(SavedBoardWinner(call.rawState, b))
                /\ game.boards[b].isDraw \in BOOLEAN
                /\ ~(game.boards[b].winner \in Markers /\ game.boards[b].isDraw)
          /\ game.currentPlayer \in Markers
          /\ game.winner = MarkerOf(Get(call.rawState, "winner"))
          /\ game.isDraw \in BOOLEAN
          /\ ~(game.winner \in Markers /\ game.isDraw)
          /\ game.moveCount \in Nat
          /\ IF /\ rawIndex.type = "number"
                /\ rawIndex.chars = << >>
                /\ rawIndex.value \in 0 .. n * n - 1
             THEN game.nextBoardIndex = IndexOf(rawIndex.value)
             ELSE game.nextBoardIndex = NoIndex

\* C24: hydrateGameState is total and returns a well-shaped state for
\* every record.
C24_Coerced == C24_Total /\ C24_Shape

\* A record was read that has a winner together with a true isDraw, a
\* forced index one past the grid, a board with a winner and a true
\* isDraw, and a board whose cells are not markers.
C24_Read ==
    /\ Hydrated
    /\ Get(call.rawState, "winner") = JsString(<< "X" >>)
    /\ Get(call.rawState, "isDraw") = JsBoolean(TRUE)
    /\ Get(call.rawState, "nextBoardIndex") = JsNumber(game.size * game.size)
    /\ \E b, d \in DOMAIN game.boards :
          /\ Get(SavedBoard(call.rawState, b), "isDraw") = JsBoolean(TRUE)
          /\ SavedBoardWinner(call.rawState, b) = JsString(<< "X" >>)
          /\ SavedCell(call.rawState, d, 0) = JsString(<< "x" >>)
    /\ game.nextBoardIndex = NoIndex
    /\ ~game.isDraw

\* C25: when the saved moveCount is missing or is not a non-negative
\* integer, the state read has moveCount equal to the number of its cells
\* that hold X or O.
C25_Recount ==
    LET rawCount == Get(call.rawState, "moveCount")
    IN ( /\ Hydrated
         /\ ~( /\ rawCount.type = "number"
               /\ rawCount.chars = << >>
               /\ rawCount.value >= 0 ) )
       => game.moveCount = Cardinality(OccupiedCells(game))

\* C25 witness: a record was read whose moveCount is a string and whose
\* cells hold markers.
C25_Witness ==
    /\ Hydrated
    /\ Get(call.rawState, "moveCount").type = "string"
    /\ Cardinality(OccupiedCells(game)) > 2
    /\ game.moveCount > 2

\* C26: every state the loader returns has moveCount equal to the number of
\* its cells that hold X or O, whatever record it read.
C26_LoadedMoveCount ==
    Hydrated => game.moveCount = Cardinality(OccupiedCells(game))

----------------------------------------------------------------------------
\* The last call was loadGameStore in call.environment, and store is what
\* it returned.
Loaded == call.op = "loadGameStore"

\* The environment holds no list of saved games that can be used: no
\* storage, no saved text, a text that is not JSON, or a saved value whose
\* games are not a list or are an empty list.
NoSavedGames(environment) ==
    \/ ~environment.hasLocalStorage
    \/ "json" \notin DOMAIN environment.rawText
    \/ LET games == Get(environment.rawText.json, "games")
       IN games.type # "array" \/ Len(games.items) = 0

\* The saved game records of an environment that has some.
SavedGames(environment) == Get(environment.rawText.json, "games").items

\* The save holds a size that cannot be converted to a string, as its
\* sizeInput or in the gameState of a game: reading it throws.
UnreadableSave(environment) ==
    /\ environment.hasLocalStorage
    /\ "json" \in DOMAIN environment.rawText
    /\ \/ ToStringThrows(Get(environment.rawText.json, "sizeInput"))
       \/ /\ ~NoSavedGames(environment)
          /\ \E i \in 1 .. Len(SavedGames(environment)) :
                ToStringThrows(
                   Get(Get(SavedGames(environment)[i], "gameState"), "size"))

\* C27: hydrateGameState of a missing, null or non-object record is the
\* fresh 3 x 3 state; loadGameStore with no storage, no saved text,
\* unparsable JSON or a games list that is empty or not a list returns a
\* store of exactly one fresh 3 x 3 game, which is the active game; so
\* does a save with a size that cannot be converted to a string; and in
\* every other save a game whose saved record has no usable gameState is
\* loaded as a fresh 3 x 3 game.
C27_FreshFallback ==
    /\ Loaded =>
          \A rawState \in RawNonObjects :
             /\ C15_Fresh(hydrateGameState(rawState), DEFAULT_SIZE)
             /\ hydrateGameState(rawState)
                   = createInitialGameState(JsNumber(DEFAULT_SIZE))
    /\ (Loaded /\ NoSavedGames(call.environment)) =>
          /\ Len(store.games) = 1
          /\ C15_Fresh(store.games[1].gameState, DEFAULT_SIZE)
          /\ store.activeGameId = store.games[1].id
          /\ activeGameEntry = store.games[1]
          /\ game = store.games[1].gameState
    /\ (Loaded /\ UnreadableSave(call.environment)) =>
          /\ Len(store.games) = 1
          /\ C15_Fresh(store.games[1].gameState, DEFAULT_SIZE)
    /\ ( /\ Loaded
         /\ ~NoSavedGames(call.environment)
         /\ ~UnreadableSave(call.environment) ) =>
          /\ Len(store.games) = Len(SavedGames(call.environment))
          /\ \A i \in 1 .. Len(store.games) :
                Get(SavedGames(call.environment)[i], "gameState").type
                      \in { "undefined", "null", "number", "string", "boolean" }
                   => C15_Fresh(store.games[i].gameState, DEFAULT_SIZE)

\* C27 witness: the store was loaded from a saved text that is JSON and
\* whose games are an empty list.
C27_Witness ==
    /\ Loaded
    /\ call.environment.hasLocalStorage
    /\ "json" \in DOMAIN call.environment.rawText
    /\ Get(call.environment.rawText.json, "games") = JsArray(<< >>)
    /\ Len(store.games) = 1
    /\ store.games[1].gameState.moveCount = 0

----------------------------------------------------------------------------
\* The state stored for the game of the given id.
StoredState(currentStore, id) ==
    currentStore.games[FindGameIndex(currentStore.games, id)].gameState

\* C28: every cell click the App handles leaves, as the stored state of the
\* game it was made in, makeMove applied to the state that was stored
\* immediately before the update, also when the click is handled on the
\* render that an earlier click has made out of date.
C28_ClicksSerialized ==
    [][ call'.op = "handleCellClick" =>
           StoredState(store', activeGameEntry.id)
              = makeMove(StoredState(store, activeGameEntry.id),
                         call'.boardIndex, call'.cellIndex) ]_appVars

----------------------------------------------------------------------------
\* The states that accepted moves of the App's clicks reach from the given
\* states in at most the given number of moves.
RECURSIVE ReachableFrom(_, _)
ReachableFrom(states, moves) ==
    IF moves = 0 THEN states
    ELSE ReachableFrom(
            states \cup UNION { { makeMove(state, input[1], input[2]) :
                                     input \in ClickInputs(state.size) } :
                                state \in states },
            moves - 1)

\* The sizes of the games of the App: the default size, and the sizes typed
\* in the size field.
AppSizes ==
    { DEFAULT_SIZE } \cup { normalizeSize(JsString(text)) : text \in SizeTexts }

\* The states reachable from the fresh state of a size of the App.
ReachableStates ==
    ReachableFrom({ createInitialGameState(JsNumber(size)) : size \in AppSizes },
                  MaxAppMoves)

\* The states reachable from the fresh state of one size: a move keeps the
\* size of the state.
Reachable(size) == { state \in ReachableStates : state.size = size }

\* C29: whatever handlers ran, and on whatever render, the state stored in
\* every game entry is reachable from the fresh state of its size by
\* accepted moves.
C29_StoredReachable ==
    \A i \in 1 .. Len(store.games) :
       store.games[i].gameState \in Reachable(store.games[i].gameState.size)

\* What holds of C29: no handler, on whatever render, replaces a store whose
\* states are all reachable by one that holds a state that is not.
C29_HandlersKeepReachable ==
    [][ (\A i \in 1 .. Len(store.games) :
           store.games[i].gameState
              \in Reachable(store.games[i].gameState.size))
        => (\A i \in 1 .. Len(store'.games) :
              store'.games[i].gameState
                 \in Reachable(store'.games[i].gameState.size)) ]_appVars

\* A click was accepted on a render that was out of date, in a
\* store of more than one game, and the game of that render holds moves.
C29_Witness ==
    /\ call.op = "handleCellClick"
    /\ call.changed
    /\ call.stale
    /\ Len(store.games) > 1
    /\ StoredState(store, activeGameEntry.id).moveCount > 0

----------------------------------------------------------------------------
\* C30: a click for which makeMove returns the state it was given leaves
\* the whole store as it was: the games, the active game and the times of
\* every entry.
C30_RejectedClickFrame ==
    [][ (call'.op = "handleCellClick" /\ ~call'.changed) => store' = store
      ]_appVars

\* C30 witness: a click on a cell that is already played was handled, in a
\* game that was stored by an earlier accepted click.
C30_Witness ==
    /\ call.op = "handleCellClick"
    /\ ~call.changed
    /\ call.boardIndex \in DOMAIN game.boards
    /\ game.boards[call.boardIndex].cells[call.cellIndex] \in Markers
    /\ activeGameEntry.updatedAt = JsNumber(LaterTime)

----------------------------------------------------------------------------
\* The marker of the player who makes the k-th accepted move of a game.
MoverOf(k) == IF k % 2 = 1 THEN "X" ELSE "O"

\* C31: players alternate from X: in every reachable state that is not
\* terminal currentPlayer is X when moveCount is even and O when it is odd,
\* and the k-th accepted move of a game placed X for odd k and O for even k,
\* so that the board holds as many X as O, or one X more.
C31_Alternation ==
    /\ ~Terminal(game) => game.currentPlayer = MoverOf(game.moveCount + 1)
    /\ Accepted =>
          game.boards[call.boardIndex].cells[call.cellIndex]
             = MoverOf(game.moveCount)
    /\ LET placed(m) == Cardinality({ p \in OccupiedCells(game) :
                                        game.boards[p[1]].cells[p[2]] = m })
       IN /\ placed("X") = (game.moveCount + 1) \div 2
          /\ placed("O") = game.moveCount \div 2

\* C31 witness: the fourth or a later even move of a game was accepted, it
\* placed O, the game goes on and X is to move.
C31_Witness ==
    /\ Accepted
    /\ game.moveCount >= 4
    /\ game.moveCount % 2 = 0
    /\ game.boards[call.boardIndex].cells[call.cellIndex] = "O"
    /\ ~Terminal(game)
    /\ game.currentPlayer = "X"

----------------------------------------------------------------------------
\* The winners an accepted call on board b and cell c sets: the player who
\* moved, for the game and for board b, and no other board gets one.
C32_MoverTakes(state, next, b, c) ==
    next # state =>
       /\ next.winner # Null => next.winner = state.currentPlayer
       /\ \A i \in DOMAIN state.boards :
             (state.boards[i].winner = Null /\ next.boards[i].winner # Null)
                => /\ next.boards[i].winner = state.currentPlayer
                   /\ i = b
                   /\ next.boards[i].cells[c] = state.currentPlayer

\* C32: only the mover wins: a reachable state with a winner has that
\* winner as currentPlayer, the player who made the last move, and a local
\* board that gets a winner by an accepted move gets the player who made
\* that move.
C32_MoverWins ==
    /\ game.winner # Null =>
          /\ game.winner = game.currentPlayer
          /\ game.winner = MoverOf(game.moveCount)
    /\ \A b \in BoardInputs(game.size), c \in CellInputs(game.size) :
          C32_MoverTakes(game, makeMove(game, b, c), b, c)

\* C32 witness: O made a move that won its local board and the game.
C32_Witness ==
    /\ Accepted
    /\ game.winner = "O"
    /\ game.currentPlayer = "O"
    /\ game.boards[call.boardIndex].winner = "O"
    /\ game.boards[call.boardIndex].cells[call.cellIndex] = "O"
    /\ game.moveCount % 2 = 0

----------------------------------------------------------------------------
\* C33: no deadlock: in every reachable state that is not terminal some
\* board is allowed, every allowed board has an empty cell, and makeMove
\* accepts a call at each empty cell of an allowed board.
C33_NoDeadlock ==
    ~Terminal(game) =>
       /\ Len(getAllowedBoardIndexes(game)) > 0
       /\ \A b \in Elements(getAllowedBoardIndexes(game)) :
             /\ b \in DOMAIN game.boards
             /\ \E c \in Indexes(game.size) : game.boards[b].cells[c] = Null
             /\ \A c \in Indexes(game.size) :
                   game.boards[b].cells[c] = Null
                      => makeMove(game, b, c).moveCount = game.moveCount + 1

\* C33 witness: a move was accepted after which the game goes on in a forced
\* board that has a single empty cell, while another board is drawn.
C33_Witness ==
    /\ Accepted
    /\ ~Terminal(game)
    /\ game.nextBoardIndex # NoIndex
    /\ \E d \in DOMAIN game.boards : game.boards[d].isDraw
    /\ \E b \in Elements(getAllowedBoardIndexes(game)) :
          /\ game.nextBoardIndex = IndexOf(b)
          /\ Cardinality({ c \in Indexes(game.size) :
                             game.boards[b].cells[c] = Null }) = 1

----------------------------------------------------------------------------
\* C34: every game terminates: a game of size N never has more than N^4
\* accepted moves, and when accepted moves keep being made the game
\* eventually has a winner or is a draw.
C34_Terminates ==
    /\ [](game.moveCount <= game.size * game.size * game.size * game.size)
    /\ <>Terminal(game)

\* C34 witness: a game of size 3 ended in a draw by an accepted move, after
\* more than sixty moves.
C34_Witness ==
    /\ Accepted
    /\ game.size = 3
    /\ game.isDraw
    /\ game.moveCount > 60

----------------------------------------------------------------------------
\* C35: the click gate of the board agrees with the engine: for every
\* state rendered and every rendered cell, the disabled flag is true exactly
\* when makeMove at that cell returns the rendered state; so a press calls
\* onCellClick exactly for the moves that makeMove accepts on the rendered
\* state, whatever the state of the component has become since the render.
C35_ClickGate ==
    /\ \A p \in RenderedCells(game) :
          disabled(game, p[1], p[2]) <=> makeMove(game, p[1], p[2]) = game
    /\ RenderedCells(game) = (0 .. game.size * game.size - 1)
                                \X (0 .. game.size * game.size - 1)
    /\ call.op = "onPointerDown" =>
          ( call.invoked
               <=> makeMove(game, call.boardIndex, call.cellIndex) # game )

\* C35 witness: the empty cell of the forced board that was pressed once was
\* pressed again before the board rendered again: its flag was false and
\* onCellClick was called, for a move that makeMove accepts on the rendered
\* state and rejects on the state of the component.
C35_Witness ==
    /\ call.op = "onPointerDown"
    /\ call.invoked
    /\ ~call.changed
    /\ game # currentGame
    /\ ~Terminal(game)
    /\ game.moveCount > ScriptedMoves(game.size)
    /\ game.nextBoardIndex = IndexOf(call.boardIndex)
    /\ currentGame.boards[call.boardIndex].cells[call.cellIndex] \in Markers

----------------------------------------------------------------------------
\* C36: restart resets only the game it is called for, the game of the
\* render, which is the first entry of the store that has its id: that
\* entry gets the fresh state of its size and keeps its id, name and
\* createdAt; every other entry and activeGameId are unchanged.
C36_RestartFrame ==
    [][ call'.op = "handleRestart" =>
           /\ Len(store'.games) = Len(store.games)
           /\ store'.activeGameId = store.activeGameId
           /\ \E i \in 1 .. Len(store.games) :
                 store.games[i].id = activeGameEntry.id
           /\ \A i \in 1 .. Len(store.games) :
                 IF /\ store.games[i].id = activeGameEntry.id
                    /\ \A j \in 1 .. i - 1 :
                          store.games[j].id # activeGameEntry.id
                 THEN /\ C15_Fresh(store'.games[i].gameState,
                                   store.games[i].gameState.size)
                      /\ store'.games[i].id = store.games[i].id
                      /\ store'.games[i].name = store.games[i].name
                      /\ store'.games[i].createdAt = store.games[i].createdAt
                 ELSE store'.games[i] = store.games[i] ]_appVars

\* C36 witness: a game that held moves was restarted while another game of
\* the store holds moves.
C36_Witness ==
    /\ call.op = "handleRestart"
    /\ activeGameEntry.gameState.moveCount > 0
    /\ \E i, j \in 1 .. Len(store.games) :
          /\ i # j
          /\ store.games[i].id = activeGameEntry.id
          /\ store.games[i].gameState.moveCount = 0
          /\ store.games[i].updatedAt = JsNumber(LaterTime)
          /\ store.games[j].gameState.moveCount > 0

----------------------------------------------------------------------------
\* The ids of the games of a store.
GameIds(currentStore) ==
    { currentStore.games[i].id : i \in 1 .. Len(currentStore.games) }

\* C37: in the store loadGameStore returns and after every handler, the
\* list of games is not empty and activeGameId is the id of one of them.
C37_ActiveGamePresent ==
    /\ Len(store.games) > 0
    /\ store.activeGameId \in GameIds(store)
    /\ \E i \in 1 .. Len(store.games) :
          store.games[i].id = store.activeGameId

\* C37 witness: the store was loaded from a save whose activeGameId names
\* no game of its list, and a game other than the first was opened since.
C37_Witness ==
    /\ call.op = "handleOpenGame"
    /\ Len(store.games) = 3
    /\ call.gameId = store.games[3].id
    /\ store.activeGameId = store.games[3].id
    /\ << "z" >> \notin GameIds(store)

----------------------------------------------------------------------------
\* The ids of the games of a store are pairwise distinct.
DistinctIds(currentStore) ==
    \A i, j \in 1 .. Len(currentStore.games) :
       i # j => currentStore.games[i].id # currentStore.games[j].id

RECURSIVE C38_FreshFrom(_, _, _, _, _)
\* While the saved games from item i on are read, every id that createId
\* returns is an id no game read before has.  seen holds the ids of the
\* games read before: the saved id, trimmed, of a game whose saved id is a
\* string that is not blank and not in seen, and the id createId returned
\* for every other game.  The clock is read once for every game, after
\* createId.
C38_FreshFrom(rawItems, i, seen, clock, draws) ==
    IF i > Len(rawItems) THEN TRUE
    ELSE LET saved   == Get(rawItems[i], "id")
             created == createId(Head(draws), clock)
         IN IF /\ saved.type = "string"
               /\ Trim(saved.chars) # << >>
               /\ Trim(saved.chars) \notin seen
            THEN C38_FreshFrom(rawItems, i + 1,
                               seen \cup { Trim(saved.chars) }, Tail(clock),
                               draws)
            ELSE /\ created \notin seen
                 /\ C38_FreshFrom(rawItems, i + 1, seen \cup { created },
                                  Tail(ClockAfterCreateId(clock, Head(draws))),
                                  Tail(draws))

\* The store was loaded, and every id createId returned on the way was an
\* id not used before.
C38_LoadedFresh ==
    /\ Loaded
    /\ \/ NoSavedGames(call.environment)
       \/ C38_FreshFrom(SavedGames(call.environment), 1, {}, StartClock,
                        call.draws)

\* C38: as long as createId returns an id not used before, the ids of the
\* games are pairwise distinct: in the store loadGameStore returns,
\* whatever ids the save holds, and after every handler, handleApplySize
\* included.  The ids are never empty, and on load a saved id that is a
\* string, not blank and not the id of an earlier game, is kept, trimmed.
C38_UniqueIds ==
    /\ [](C38_LoadedFresh => DistinctIds(store))
    /\ [](\A i \in 1 .. Len(store.games) :
             /\ store.games[i].id # << >>
             /\ store.games[i].id = Trim(store.games[i].id))
    /\ [](Loaded =>
            \A i \in 1 .. Len(store.games) :
               LET saved == Get(SavedGames(call.environment)[i], "id")
               IN ( /\ ~NoSavedGames(call.environment)
                    /\ ~UnreadableSave(call.environment)
                    /\ saved.type = "string"
                    /\ Trim(saved.chars) # << >>
                    /\ \A j \in 1 .. i - 1 :
                          store.games[j].id # Trim(saved.chars) )
                  => store.games[i].id = Trim(saved.chars))
    /\ [][ ( /\ DistinctIds(store)
             /\ call'.op = "handleApplySize" =>
                   call'.id \notin GameIds(store) )
           => DistinctIds(store') ]_appVars

\* C38 witness: the store was loaded from a save of three games, the first
\* with a number as its id, the second not an object, the third with the
\* id createId returned for the first; createId returned three ids that
\* differ, and the third game got the last of them.
C38_Witness ==
    /\ C38_LoadedFresh
    /\ ~NoSavedGames(call.environment)
    /\ Len(store.games) = 3
    /\ Get(SavedGames(call.environment)[1], "id").type = "number"
    /\ Get(SavedGames(call.environment)[3], "id") = JsString(Uuid1)
    /\ store.games[1].id = Uuid1
    /\ store.games[2].id = Uuid2
    /\ store.games[3].id = Uuid3

====
